---- MODULE Spec2Model ----
(***************************************************************************)
(* A model of the guideline distillation pipeline:                         *)
(*   - pipeline/chunk.py       chunk_lines               (SpecChunk)       *)
(*   - pipeline/extract.py     extract_chunk, run_extraction (Spec)        *)
(*   - pipeline/normalize.py   normalize_and_canonicalize                  *)
(*     pipeline/synthesize_workflow.py synthesize_workflow (SpecNormalize) *)
(* Each component is a state machine over its own variables; the other     *)
(* components' variables stay at their idle values.                        *)
(***************************************************************************)
EXTENDS Integers, Sequences, FiniteSets, TLC

VARIABLES
    \* ---- chunk_lines (pipeline/chunk.py) ----
    records,      \* the input sequence of LineRecords
    cfg,          \* the ChunkingConfig
    ck_pc,        \* position in chunk_lines: "idle", "check", "loop", "done", "error"
    ck_i,         \* index of the next record of the for loop
    cur,          \* the buffer of records of the chunk being built
    cur_chars,    \* the rendered length of the buffer
    ck_chunks,    \* the chunks emitted so far
    char_split,   \* history: would_exceed_chars was true for some record
    \* ---- extract_chunk / run_extraction (pipeline/extract.py) ----
    llm,          \* which model of the LLM is in use
    ex_chunks,    \* the chunk list run_extraction iterates over
    trace_index,  \* chunk_bounds of the trace index
    ex_pc,        \* "idle", "chunk", "decode", "failed", "returned", "raised"
    chunk_idx,    \* index of the chunk of the for loop
    attempt,      \* attempt number of the retry wrapper
    accumulated,  \* the accumulated model text
    generated,    \* tokens requested so far in this attempt
    requests,     \* history: max_new_tokens of each generate_text call of the attempt
    all_facts,    \* facts collected from the chunks done
    chunk_results,\* history: the facts each extract_chunk call returned
    visited,      \* history: chunk ids passed to extract_chunk, in order
    out,          \* the ExtractionOutput returned by run_extraction
    ex_error,     \* the exception that left run_extraction
    \* ---- normalize_and_canonicalize, synthesize_workflow ----
    nz_pc,        \* "idle", "filter", "exact", "fuzzy", "tighten", "reid", "done", "synth"
    extraction,   \* extracted_facts of the ExtractionOutput given to normalize
    nz_cfg,       \* the NormalizeConfig
    line_text_by_no, \* the line-text map, or None
    kept,         \* the facts that passed the junk filter, refined
    merged_exact, \* the facts after exact deduplication
    merged_fuzzy, \* the facts after fuzzy deduplication, then tightened
    cleaned,      \* extracted_facts of the ExtractionOutput normalize returns
    step6,        \* the counts of meta.step6 and of the warnings
    workflow,     \* the Workflow synthesize_workflow returns
    \* ---- parse_guideline_lines (pipeline/ingest.py) ----
    ing_pc,       \* position in parse_guideline_lines: "idle", "parse", "check", "returned", "raised"
    ing_file,     \* the lines of the guideline file (raw.splitlines())
    ing_idx,      \* index of the next line of the first loop, then of the next record of the second
    ing_records,  \* the list records
    ing_expected, \* the local expected
    ing_seen,     \* the local seen
    ing_error,    \* the ValueError that left parse_guideline_lines
    \* ---- validate_citations (pipeline/validate_citations.py) ----
    vc_pc,        \* position in validate_citations: "idle", "index", "loop", "returned", "raised"
    vc_chunks,    \* the argument chunks (chunk dictionaries)
    vc_citations, \* the argument citations (citation dictionaries)
    vc_index,     \* the local idx, chunk_id -> chunk
    vc_i,         \* index of the citation of the for loop
    vc_error,     \* the CitationValidationError that left validate_citations
    vc_trace,     \* what traceability.validate_citations_list did with the same citations
    \* ---- recover_truncated_chunk_json (pipeline/extract.py) ----
    rc_pc,        \* position in recover_truncated_chunk_json: "idle", "call", "returned"
    rc_doc,       \* the document the model was writing: head, fact objects, tail
    rc_text,      \* the argument text: the document cut somewhere
    rc_s,         \* s: the stripped text
    rc_i,         \* position of the loop over s
    rc_st,        \* in_str, esc, obj_depth, arr_depth, last_safe_end
    rc_result,    \* what recover_truncated_chunk_json returned
    \* ---- validate_workflow_graph (pipeline/validate_workflow.py) ----
    vw_pc,        \* position in validate_workflow_graph: "idle", "ids", "start", "edges", "walk", "returned", "raised"
    vw_workflow,  \* the argument workflow
    vw_stack,     \* stack
    vw_reachable, \* reachable
    vw_error,     \* the WorkflowValidationError raised, if any
    \* ---- run_all (pipeline/run_all.py) ----
    ra_pc,        \* position in run_all: "idle", "loop", "done", "raised"
    ra_resume,    \* the resume argument of the current call
    ra_run,       \* the number of the current call of run_all, 0 before the first
    ra_files,     \* outputs/: the artifacts that exist
    ra_step,      \* index into steps of the step the loop is at
    ra_ran,       \* ran_steps
    ra_skipped,   \* skipped_steps
    ra_deleted,   \* for every call, the artifacts the operator deleted after it
    ra_outcomes,  \* how the calls so far ended: "done" or "raised"
    ra_guideline, \* data/guideline.txt exists
    ra_called,    \* the step modules the current call has invoked, in order
    ra_manifests, \* for the hash and the run-metadata manifest, the call that wrote it last, 0 for none
    \* ---- render_clinical_summary: the decision chain ----
    rs_pc,        \* position in render_clinical_summary: "idle", "start", "walk", "done"
    rs_wf,        \* the argument wf
    rs_cur,       \* cur, as the position of the node in wf.nodes; 0 for None
    rs_seen,      \* seen
    decision_chain\* decision_chain

chunkVars == <<records, cfg, ck_pc, ck_i, cur, cur_chars, ck_chunks, char_split>>

extractVars ==
    <<llm, ex_chunks, trace_index, ex_pc, chunk_idx, attempt, accumulated, generated,
      requests, all_facts, chunk_results, visited, out, ex_error>>

normVars ==
    <<nz_pc, extraction, nz_cfg, line_text_by_no, kept, merged_exact, merged_fuzzy,
      cleaned, step6, workflow>>

ingestVars == <<ing_pc, ing_file, ing_idx, ing_records, ing_expected, ing_seen, ing_error>>

vcitVars == <<vc_pc, vc_chunks, vc_citations, vc_index, vc_i, vc_error, vc_trace>>

recoverVars == <<rc_pc, rc_doc, rc_text, rc_s, rc_i, rc_st, rc_result>>

vwfVars == <<vw_pc, vw_workflow, vw_stack, vw_reachable, vw_error>>

runAllVars == <<ra_pc, ra_resume, ra_run, ra_files, ra_step, ra_ran, ra_skipped, ra_deleted, ra_outcomes,
               ra_guideline, ra_called, ra_manifests>>

renderVars == <<rs_pc, rs_wf, rs_cur, rs_seen, decision_chain>>

vars == <<chunkVars, extractVars, normVars, ingestVars, vcitVars, recoverVars, vwfVars, runAllVars, renderVars>>

\* the variables of the other components, which a component's steps leave alone
notChunkVars == <<extractVars, normVars, ingestVars, vcitVars, recoverVars, vwfVars, runAllVars, renderVars>>

notExtractVars == <<chunkVars, normVars, ingestVars, vcitVars, recoverVars, vwfVars, runAllVars, renderVars>>

notNormVars == <<chunkVars, extractVars, ingestVars, vcitVars, recoverVars, vwfVars, runAllVars, renderVars>>

notIngestVars == <<chunkVars, extractVars, normVars, vcitVars, recoverVars, vwfVars, runAllVars, renderVars>>

notVcitVars == <<chunkVars, extractVars, normVars, ingestVars, recoverVars, vwfVars, runAllVars, renderVars>>

notRecoverVars == <<chunkVars, extractVars, normVars, ingestVars, vcitVars, vwfVars, runAllVars, renderVars>>

notVwfVars == <<chunkVars, extractVars, normVars, ingestVars, vcitVars, recoverVars, runAllVars, renderVars>>

notRunAllVars == <<chunkVars, extractVars, normVars, ingestVars, vcitVars, recoverVars, vwfVars, renderVars>>

notRenderVars == <<chunkVars, extractVars, normVars, ingestVars, vcitVars, recoverVars, vwfVars, runAllVars>>

(***************************************************************************)
(* Helpers                                                                 *)
(***************************************************************************)
Max(a, b) == IF a >= b THEN a ELSE b

Min(a, b) == IF a <= b THEN a ELSE b

DigitChars == <<"0", "1", "2", "3", "4", "5", "6", "7", "8", "9">>

RECURSIVE DigitsValue(_)
\* int(digits) for a sequence of digit characters
DigitsValue(ds) ==
    IF ds = <<>> THEN 0
    ELSE 10 * DigitsValue(SubSeq(ds, 1, Len(ds) - 1))
         + (CHOOSE d \in 0..9 : DigitChars[d + 1] = ds[Len(ds)])

RECURSIVE Decimal(_)
\* str(n) for n >= 0, as a sequence of characters
Decimal(n) ==
    IF n < 10 THEN <<DigitChars[n + 1]>>
    ELSE Append(Decimal(n \div 10), DigitChars[(n % 10) + 1])

RECURSIVE NumDigits(_)
\* len(str(n)) for n >= 0
NumDigits(n) == IF n < 10 THEN 1 ELSE 1 + NumDigits(n \div 10)

\* f"{n:04d}": zero-padded to at least 4 digits, longer numbers are not cut
ZeroPad4(n) ==
    IF n >= 1000 THEN Decimal(n)
    ELSE IF n >= 100 THEN <<"0">> \o Decimal(n)
    ELSE IF n >= 10 THEN <<"0", "0">> \o Decimal(n)
    ELSE <<"0", "0", "0">> \o Decimal(n)

RECURSIVE SeqSum(_)
SeqSum(s) == IF s = <<>> THEN 0 ELSE Head(s) + SeqSum(Tail(s))

RECURSIVE Flatten(_)
\* concatenation of a sequence of sequences
Flatten(ss) == IF ss = <<>> THEN <<>> ELSE Head(ss) \o Flatten(Tail(ss))

Range(s) == {s[k] : k \in DOMAIN s}

(***************************************************************************)
(* chunk_lines                                                             *)
(***************************************************************************)
\* Bounds of the chunker's inputs
MaxRecords == 7

MaxLinesPerChunk == 3

\* A LineRecord is [line_no, text_len]: the text enters chunk_lines only through
\* its length (ingest strips it, so it has no trailing blanks; it may be empty).
TextLens == {0, 8}

FirstLineNos == {1, 9}

\* records as parse_guideline_lines returns them: numbered contiguously
RecordSeqs ==
    UNION { { [k \in 1..n |-> [line_no |-> first + k - 1, text_len |-> tl[k]]] :
                tl \in [1..n -> TextLens], first \in FirstLineNos }
            : n \in 0..MaxRecords }

ChunkingConfigs ==
    [max_lines_per_chunk : 0..MaxLinesPerChunk, max_chars_per_chunk : {0, 4, 10, 1200}]

\* len(_format_line_for_chunk(r)): f"{line_no}. {text}".rstrip()
FormatLineLen(r) ==
    IF r.text_len = 0 THEN NumDigits(r.line_no) + 1
    ELSE NumDigits(r.line_no) + 2 + r.text_len

\* the Chunk that flush() appends when cur is non-empty
MakeChunk(chs, buf) ==
    [chunk_id |-> <<"c">> \o ZeroPad4(Len(chs) + 1),
     line_start |-> buf[1].line_no,
     line_end |-> buf[Len(buf)].line_no,
     text_len |-> SeqSum([k \in 1..Len(buf) |-> FormatLineLen(buf[k])]) + Len(buf) - 1,
     lines |-> buf]

\* a plausible slip of flush(): the buffer is not reset after the chunk is emitted
FlushKeepsBuffer(chs, buf, chars) ==
    IF buf = <<>> THEN [chunks |-> chs, cur |-> buf, cur_chars |-> chars]
    ELSE [chunks |-> Append(chs, MakeChunk(chs, buf)), cur |-> buf, cur_chars |-> chars]

\* flush(): the nonlocal state (chunks, cur, cur_chars) after the call
Flush(chs, buf, chars) ==
    IF buf = <<>> THEN [chunks |-> chs, cur |-> buf, cur_chars |-> chars]
    ELSE [chunks |-> Append(chs, MakeChunk(chs, buf)), cur |-> <<>>, cur_chars |-> 0]

\* a plausible slip of the hard rule: the buffer is compared after it has grown
WouldExceedLinesLate(buf, c) == Len(buf) > c.max_lines_per_chunk

WouldExceedLines(buf, c) == (Len(buf) + 1) > c.max_lines_per_chunk

\* a plausible slip of the soft rule: the buffer is compared before the record is added
WouldExceedCharsLate(buf, chars, add_len, c) ==
    chars > c.max_chars_per_chunk /\ Len(buf) > 0

\* chunk.py 76-77

WouldExceedChars(buf, chars, add_len, c) ==
    (chars + add_len) > c.max_chars_per_chunk /\ Len(buf) > 0

ChunkIdle ==
    /\ records = <<>>
    /\ cfg = [max_lines_per_chunk |-> 0, max_chars_per_chunk |-> 0]
    /\ ck_pc = "idle"
    /\ ck_i = 0
    /\ cur = <<>>
    /\ cur_chars = 0
    /\ ck_chunks = <<>>
    /\ char_split = FALSE

ChunkInit ==
    /\ records \in RecordSeqs
    /\ cfg \in ChunkingConfigs
    /\ ck_pc = "check"
    /\ ck_i = 1
    /\ cur = <<>>
    /\ cur_chars = 0
    /\ ck_chunks = <<>>
    /\ char_split = FALSE

\* chunk.py 37-40: the configuration is rejected
ChunkLinesReject ==
    /\ ck_pc = "check"
    /\ (cfg.max_lines_per_chunk <= 0 \/ cfg.max_chars_per_chunk <= 0)
    /\ ck_pc' = "error"
    /\ UNCHANGED <<records, cfg, ck_i, cur, cur_chars, ck_chunks, char_split>>
    /\ UNCHANGED notChunkVars

\* chunk.py 37-44: the configuration is accepted
ChunkLinesBegin ==
    /\ ck_pc = "check"
    /\ cfg.max_lines_per_chunk > 0
    /\ cfg.max_chars_per_chunk > 0
    /\ ck_pc' = "loop"
    /\ UNCHANGED <<records, cfg, ck_i, cur, cur_chars, ck_chunks, char_split>>
    /\ UNCHANGED notChunkVars

\* chunk.py 68-82: one iteration of the for loop
ChunkLinesStep ==
    /\ ck_pc = "loop"
    /\ ck_i <= Len(records)
    /\ LET r == records[ck_i]
           add_len == FormatLineLen(r) + 1
           would_exceed_lines == WouldExceedLines(cur, cfg)
           would_exceed_chars == WouldExceedChars(cur, cur_chars, add_len, cfg)
           st == IF would_exceed_lines \/ would_exceed_chars
                 THEN Flush(ck_chunks, cur, cur_chars)
                 ELSE [chunks |-> ck_chunks, cur |-> cur, cur_chars |-> cur_chars]
       IN /\ ck_chunks' = st.chunks
          /\ cur' = Append(st.cur, r)
          /\ cur_chars' = st.cur_chars + add_len
          /\ char_split' = (char_split \/ would_exceed_chars)
    /\ ck_i' = ck_i + 1
    /\ UNCHANGED <<records, cfg, ck_pc>>
    /\ UNCHANGED notChunkVars

\* chunk.py 84-85: the final flush and the return
ChunkLinesEnd ==
    /\ ck_pc = "loop"
    /\ ck_i > Len(records)
    /\ LET st == Flush(ck_chunks, cur, cur_chars)
       IN /\ ck_chunks' = st.chunks
          /\ cur' = st.cur
          /\ cur_chars' = st.cur_chars
    /\ ck_pc' = "done"
    /\ UNCHANGED <<records, cfg, ck_i, char_split>>
    /\ UNCHANGED notChunkVars

ChunkSizes == [k \in 1..Len(ck_chunks) |-> Len(ck_chunks[k].lines)]

\* C9: the chunks returned by chunk_lines partition the input: every chunk is
\* non-empty, the chunks' lines concatenated in chunk order are exactly the input
\* records, and each chunk's line_start / line_end are the line numbers of its
\* first / last record.
C9_ChunksPartitionInput ==
    ck_pc = "done" =>
        /\ \A k \in 1..Len(ck_chunks) : ck_chunks[k].lines # <<>>
        /\ Flatten([k \in 1..Len(ck_chunks) |-> ck_chunks[k].lines]) = records
        /\ \A k \in 1..Len(ck_chunks) :
              LET ls == ck_chunks[k].lines
              IN ls # <<>> =>
                    /\ ck_chunks[k].line_start = ls[1].line_no
                    /\ ck_chunks[k].line_end = ls[Len(ls)].line_no

\* C9 witness: a finished run that split both on the line limit and on the
\* character limit and returned at least three chunks
C9_Witness ==
    /\ ck_pc = "done"
    /\ Len(records) >= 5
    /\ Len(ck_chunks) >= 3
    /\ char_split
    /\ \E k \in 1..Len(ck_chunks) : Len(ck_chunks[k].lines) = cfg.max_lines_per_chunk

\* C10: no returned chunk holds more than max_lines_per_chunk records; when the
\* character limit never triggered, every chunk but the last holds exactly
\* max_lines_per_chunk records (7 records with max_lines_per_chunk = 3: 3, 3, 1).
C10_ChunkSizeBounded ==
    ck_pc = "done" =>
        /\ \A k \in 1..Len(ck_chunks) :
              Len(ck_chunks[k].lines) <= cfg.max_lines_per_chunk
        /\ ~char_split =>
              \A k \in 1..(Len(ck_chunks) - 1) :
                 Len(ck_chunks[k].lines) = cfg.max_lines_per_chunk
        /\ (~char_split /\ Len(records) = 7 /\ cfg.max_lines_per_chunk = 3) =>
              ChunkSizes = <<3, 3, 1>>

\* C10 witness: 7 records, max_lines_per_chunk = 3, no character split
C10_Witness ==
    /\ ck_pc = "done"
    /\ Len(records) = 7
    /\ cfg.max_lines_per_chunk = 3
    /\ ~char_split
    /\ ChunkSizes = <<3, 3, 1>>

(***************************************************************************)
(* extract_chunk and run_extraction (pipeline/extract.py)                  *)
(*                                                                         *)
(* The accumulated model text is represented by what parse_json_strict can *)
(* obtain from it: the complete fact objects of its "extracted_facts"      *)
(* array in order, whether the array and the root object are closed, and   *)
(* whether the text is damaged (text that is not part of the JSON document *)
(* precedes its end, so that json.loads fails on the text, on its {...}    *)
(* span and on the recovered prefix alike).  A generate_text result is     *)
(* represented by what it adds to that text.                               *)
(***************************************************************************)
\* Bounds of the extraction inputs
NumChunks == 2

MaxFactsPerRun == 2

MaxFactsPerChunkCall == 4

\* Program constants
hard_cap_tokens == 1800

step_tokens == 256

max_attempts == 3

FactTypes ==
    {"population", "threshold", "exclusion", "contraindication", "red_flag",
     "action", "diagnostic", "follow_up", "other"}

\* line fields of a citation as the model wrote them: an integer (or a value
\* int() converts), absent, or a value int() rejects
IntVal(n) == [k |-> "int", v |-> n]

AbsentVal == [k |-> "absent", v |-> 0]

BadVal == [k |-> "nan", v |-> 0]

\* the chunks artifact: chunk k covers k + 1 lines, chunks are contiguous
ArtifactChunk(k) ==
    [chunk_id |-> <<"c">> \o ZeroPad4(k),
     line_start |-> 1 + ((k - 1) * (k + 2)) \div 2,
     line_end |-> 1 + ((k - 1) * (k + 2)) \div 2 + k]

ArtifactChunks(n) == [k \in 1..n |-> ArtifactChunk(k)]

\* build_trace_index: chunk_bounds, chunk_id -> <<line_start, line_end>>
BuildTraceIndex(chs) ==
    [cid \in {chs[k].chunk_id : k \in DOMAIN chs} |->
        LET ch == CHOOSE c \in Range(chs) : c.chunk_id = cid
        IN <<ch.line_start, ch.line_end>>]

\* normalize_fact_types: the near-miss mapping, other values are kept
NormalizeFactType(ft) ==
    CASE ft \in {"precaution", "precautions"} -> "other"
      [] ft \in {"warning", "warnings"} -> "red_flag"
      [] ft \in {"contraindications", "contraindication"} -> "contraindication"
      [] ft = "diagnosis" -> "diagnostic"
      [] ft \in {"followup", "follow-up"} -> "follow_up"
      [] OTHER -> ft

\* int(c.get(key, default)): <<TRUE, n>> or <<FALSE, 0>> when int() raises
IntOrDefault(val, default) ==
    CASE val.k = "int" -> <<TRUE, val.v>>
      [] val.k = "absent" -> <<TRUE, default>>
      [] OTHER -> <<FALSE, 0>>

\* a plausible slip: the model's chunk_id and line numbers are taken as written
NormalizeCitationAsWritten(c, chunk) ==
    LET s == IntOrDefault(c.line_start, chunk.line_start)
        e == IntOrDefault(c.line_end, chunk.line_end)
    IN IF ~s[1] \/ ~e[1] THEN <<>>
       ELSE <<[chunk_id |-> c.chunk_id, line_start |-> s[2], line_end |-> e[2]]>>

\* normalize_citations_to_chunk without the exchange of lines 103-104
NormalizeCitationNoSwap(c, chunk) ==
    LET ls == chunk.line_start
        le == chunk.line_end
        s == IntOrDefault(c.line_start, ls)
        e == IntOrDefault(c.line_end, le)
    IN IF ~s[1] \/ ~e[1] THEN <<>>
       ELSE IF e[2] < ls \/ s[2] > le THEN <<>>
       ELSE <<[chunk_id |-> chunk.chunk_id,
               line_start |-> Max(ls, Min(le, s[2])),
               line_end |-> Max(ls, Min(le, e[2]))]>>

\* normalize_citations_to_chunk, one citation: <<>> when it is dropped, else
\* the one normalized citation
NormalizeCitation(c, chunk) ==
    LET ls == chunk.line_start
        le == chunk.line_end
        s == IntOrDefault(c.line_start, ls)
        e == IntOrDefault(c.line_end, le)
    IN IF ~s[1] \/ ~e[1] THEN <<>>
       ELSE IF e[2] < ls \/ s[2] > le THEN <<>>
       ELSE LET c_ls == Max(ls, Min(le, s[2]))
                c_le == Max(ls, Min(le, e[2]))
            IN <<[chunk_id |-> chunk.chunk_id,
                  line_start |-> IF c_ls > c_le THEN c_le ELSE c_ls,
                  line_end |-> IF c_ls > c_le THEN c_ls ELSE c_le]>>

\* normalize_citations_to_chunk, the citations of one fact
NormalizeCitationsToChunk(cits, chunk) ==
    Flatten([k \in 1..Len(cits) |-> NormalizeCitation(cits[k], chunk)])

\* the deterministic cleanup of one fact before schema validation
CleanFact(f, chunk) ==
    [fact_id |-> f.fact_id,
     fact_type |-> NormalizeFactType(f.fact_type),
     citations |-> NormalizeCitationsToChunk(f.citations, chunk)]

\* ExtractedFact.fact_id: pattern ^f\d{4}$
FactIdMatches(id) ==
    /\ Len(id) = 5
    /\ id[1] = "f"
    /\ \A k \in 2..5 : id[k] \in Range(DigitChars)

\* ExtractedFact schema: fact_id pattern, fact_type enum, citations min_length 1
FactSchemaValid(f) ==
    /\ FactIdMatches(f.fact_id)
    /\ f.fact_type \in FactTypes
    /\ Len(f.citations) >= 1

\* validate_citation without the upper bound of line_end
ValidateCitationOpenEnd(index, cit) ==
    /\ cit.chunk_id \in DOMAIN index
    /\ cit.line_start <= cit.line_end
    /\ index[cit.chunk_id][1] <= cit.line_start
    /\ cit.line_start <= index[cit.chunk_id][2]
    /\ index[cit.chunk_id][1] <= cit.line_end

\* traceability.validate_citation
ValidateCitation(index, cit) ==
    /\ cit.chunk_id \in DOMAIN index
    /\ cit.line_start <= cit.line_end
    /\ index[cit.chunk_id][1] <= cit.line_start
    /\ cit.line_start <= index[cit.chunk_id][2]
    /\ index[cit.chunk_id][1] <= cit.line_end
    /\ cit.line_end <= index[cit.chunk_id][2]

\* traceability.validate_citations_list: no duplicate key, every citation valid
ValidateCitationsList(index, cits) ==
    /\ \A a, b \in 1..Len(cits) : a # b => cits[a] # cits[b]
    /\ \A a \in 1..Len(cits) : ValidateCitation(index, cits[a])

\* the text "{" that every attempt starts from
EmptyAccumulation == [facts |-> <<>>, closed |-> FALSE, damaged |-> FALSE]

\* accumulated += raw
Accumulate(acc, raw) ==
    CASE raw.kind = "nothing" -> acc
      [] raw.kind = "prose" -> [acc EXCEPT !.damaged = TRUE]
      [] OTHER ->
            IF acc.closed \/ acc.damaged THEN [acc EXCEPT !.damaged = TRUE]
            ELSE [facts |-> acc.facts \o raw.facts, closed |-> raw.closed,
                  damaged |-> FALSE]

\* parse_json_strict: <<TRUE, facts>>, or <<FALSE, <<>>>> for ExtractionError.
\* A closed document parses directly; an open one is recovered by
\* recover_truncated_chunk_json when at least one fact object is complete.
ParseJsonStrict(acc) ==
    IF acc.damaged THEN <<FALSE, <<>>>>
    ELSE IF acc.closed THEN <<TRUE, acc.facts>>
    ELSE IF acc.facts # <<>> THEN <<TRUE, acc.facts>>
    ELSE <<FALSE, <<>>>>

\* extract.py 333-356 (and 359-369): the body of the try block.
\* kind "ok": parsed is returned; "extraction_error": ExtractionError was
\* raised; "other_error": another exception (schema, traceability) was raised.
TryParse(acc, chunk, index) ==
    LET p == ParseJsonStrict(acc)
        facts == [k \in 1..Len(p[2]) |-> CleanFact(p[2][k], chunk)]
        \* the facts at which the loop over parsed.extracted_facts raises
        failing == {k \in 1..Len(facts) :
                        \/ facts[k].citations = <<>>
                        \/ ~ValidateCitationsList(index, facts[k].citations)}
        first == CHOOSE k \in failing : \A j \in failing : k <= j
    IN IF ~p[1] THEN [kind |-> "extraction_error", facts |-> <<>>]
       ELSE IF \E k \in 1..Len(facts) : ~FactSchemaValid(facts[k])
            THEN [kind |-> "other_error", facts |-> <<>>]
       ELSE IF failing = {} THEN [kind |-> "ok", facts |-> facts]
       ELSE IF facts[first].citations = <<>>
            THEN [kind |-> "extraction_error", facts |-> <<>>]
       ELSE [kind |-> "other_error", facts |-> <<>>]

\* a plausible slip: the ids the model wrote are kept
ReassignFactIdsKeep(fs) == fs

\* run_extraction 402-403: fact ids are reassigned over the concatenation
ReassignFactIds(fs) ==
    [i \in 1..Len(fs) |-> [fs[i] EXCEPT !.fact_id = <<"f">> \o ZeroPad4(i)]]

\* ---- what the model may write ----
RawNothing == [kind |-> "nothing", facts |-> <<>>, closed |-> FALSE]

RawProse == [kind |-> "prose", facts |-> <<>>, closed |-> FALSE]

RawDoc(fs, cl) == [kind |-> "doc", facts |-> fs, closed |-> cl]

RawCite(cid, s, e) == [chunk_id |-> cid, line_start |-> s, line_end |-> e]

\* three facts the model may write in any chunk: one citing c0001 exactly, one
\* citing another chunk with a range that overhangs every chunk, one that the
\* schema rejects
FactExact ==
    [fact_id |-> <<"f", "0", "0", "0", "7">>, fact_type |-> "action",
     citations |-> <<RawCite(<<"c", "0", "0", "0", "1">>, IntVal(1), IntVal(2))>>]

FactOverhang ==
    [fact_id |-> <<"f", "0", "0", "0", "1">>, fact_type |-> "warning",
     citations |-> <<RawCite(<<"c", "0", "0", "0", "2">>, IntVal(2), IntVal(7))>>]

FactBadSchema ==
    [fact_id |-> <<"f", "1">>, fact_type |-> "bogus",
     citations |-> <<RawCite(<<"c", "0", "0", "0", "1">>, AbsentVal, AbsentVal)>>]

BasicFacts == {FactExact, FactOverhang, FactBadSchema}

SeqsUpTo(S, n) == UNION {[1..m -> S] : m \in 0..n}

LineVals == {AbsentVal, BadVal, IntVal(0), IntVal(2), IntVal(4), IntVal(9)}

RichCitations ==
    {RawCite(cid, s, e) : cid \in {<<"c", "0", "0", "0", "1">>, <<"c", "0", "0", "0", "2">>, <<"z", "z">>}, s \in LineVals, e \in LineVals}

PairCitations ==
    {RawCite(<<"c", "0", "0", "0", "1">>, IntVal(2), IntVal(2)), RawCite(<<"z", "z">>, IntVal(2), IntVal(2)),
     RawCite(<<"c", "0", "0", "0", "2">>, IntVal(4), IntVal(2)), RawCite(<<"c", "0", "0", "0", "2">>, IntVal(4), IntVal(4)),
     RawCite(<<"c", "0", "0", "0", "1">>, AbsentVal, IntVal(4)), RawCite(<<"z", "z">>, BadVal, AbsentVal),
     RawCite(<<"c", "0", "0", "0", "2">>, IntVal(5), IntVal(3))}

\* facts with every kind of citation list: no citation, one of RichCitations,
\* two of PairCitations
RichFacts ==
    {[fact_id |-> <<"f", "0", "0", "0", "1">>, fact_type |-> "other", citations |-> cs] :
        cs \in {<<>>} \cup {<<c>> : c \in RichCitations}
                \cup {<<c, d>> : c \in PairCitations, d \in PairCitations}}

\* the outputs of generate_text of the two models of the LLM: "run" is used
\* for whole runs, "chunk" for single calls of extract_chunk
LLMOutputs(model) ==
    IF model = "run"
    THEN {RawNothing, RawProse}
            \cup {RawDoc(fs, cl) : fs \in SeqsUpTo(BasicFacts, MaxFactsPerRun), cl \in BOOLEAN}
    ELSE {RawNothing, RawProse}
            \cup {RawDoc(fs, cl) : fs \in SeqsUpTo(BasicFacts, MaxFactsPerChunkCall),
                                   cl \in BOOLEAN}
            \cup {RawDoc(<<f>>, cl) : f \in RichFacts, cl \in BOOLEAN}

NoOutput == [returned |-> FALSE, extracted_facts |-> <<>>, num_chunks |-> 0]

ExtractIdle ==
    /\ llm = "none"
    /\ ex_chunks = <<>>
    /\ trace_index = <<>>
    /\ ex_pc = "idle"
    /\ chunk_idx = 0
    /\ attempt = 0
    /\ accumulated = EmptyAccumulation
    /\ generated = 0
    /\ requests = <<>>
    /\ all_facts = <<>>
    /\ chunk_results = <<>>
    /\ visited = <<>>
    /\ out = NoOutput
    /\ ex_error = "none"

\* run_extraction 384-395 with the default paths: the trace index and the
\* chunk list are read from the same chunks artifact
InitRunExtraction ==
    /\ llm = "run"
    /\ \E n \in 1..NumChunks :
          /\ ex_chunks = ArtifactChunks(n)
          /\ trace_index = BuildTraceIndex(ArtifactChunks(n))
    /\ ex_pc = "chunk"
    /\ chunk_idx = 1
    /\ attempt = 0
    /\ accumulated = EmptyAccumulation
    /\ generated = 0
    /\ requests = <<>>
    /\ all_facts = <<>>
    /\ chunk_results = <<>>
    /\ visited = <<>>
    /\ out = NoOutput
    /\ ex_error = "none"

\* run_extraction with chunks_path naming one chunk of the indexed artifact
InitExtractOneChunk ==
    /\ llm = "chunk"
    /\ \E n \in 1..NumChunks :
          /\ ex_chunks = <<ArtifactChunk(n)>>
          /\ trace_index = BuildTraceIndex(ArtifactChunks(NumChunks))
    /\ ex_pc = "chunk"
    /\ chunk_idx = 1
    /\ attempt = 0
    /\ accumulated = EmptyAccumulation
    /\ generated = 0
    /\ requests = <<>>
    /\ all_facts = <<>>
    /\ chunk_results = <<>>
    /\ visited = <<>>
    /\ out = NoOutput
    /\ ex_error = "none"

\* extract_chunk returns parsed to run_extraction (extract.py 398-399)
ReturnToRun(facts) ==
    /\ all_facts' = all_facts \o facts
    /\ chunk_results' = Append(chunk_results, facts)
    /\ chunk_idx' = chunk_idx + 1
    /\ ex_pc' = "chunk"

\* extract.py 397-398, 315-323: the next chunk is passed to extract_chunk
ExtractChunkCall ==
    /\ ex_pc = "chunk"
    /\ chunk_idx <= Len(ex_chunks)
    /\ visited' = Append(visited, ex_chunks[chunk_idx].chunk_id)
    /\ attempt' = 1
    /\ accumulated' = EmptyAccumulation
    /\ generated' = 0
    /\ requests' = <<>>
    /\ ex_pc' = "decode"
    /\ UNCHANGED <<llm, ex_chunks, trace_index, chunk_idx, all_facts, chunk_results,
                   out, ex_error>>
    /\ UNCHANGED notExtractVars

\* extract.py 325-356: one iteration of the decode loop
DecodeStep ==
    /\ ex_pc = "decode"
    /\ generated < hard_cap_tokens
    /\ \E raw \in LLMOutputs(llm) :
          LET acc == Accumulate(accumulated, raw)
              res == TryParse(acc, ex_chunks[chunk_idx], trace_index)
          IN /\ accumulated' = acc
             /\ generated' = generated + step_tokens
             /\ requests' = Append(requests, step_tokens)
             /\ IF res.kind = "ok" THEN ReturnToRun(res.facts)
                ELSE /\ ex_pc' = IF res.kind = "extraction_error" THEN "decode" ELSE "failed"
                     /\ UNCHANGED <<all_facts, chunk_results, chunk_idx>>
    /\ UNCHANGED <<llm, ex_chunks, trace_index, attempt, visited, out, ex_error>>
    /\ UNCHANGED notExtractVars

\* extract.py 358-375: the token cap is reached, one last parse of the text
DecodeLastAttempt ==
    /\ ex_pc = "decode"
    /\ generated >= hard_cap_tokens
    /\ LET res == TryParse(accumulated, ex_chunks[chunk_idx], trace_index)
       IN IF res.kind = "ok" THEN ReturnToRun(res.facts)
          ELSE /\ ex_pc' = "failed"
               /\ UNCHANGED <<all_facts, chunk_results, chunk_idx>>
    /\ UNCHANGED <<llm, ex_chunks, trace_index, attempt, accumulated, generated,
                   requests, visited, out, ex_error>>
    /\ UNCHANGED notExtractVars

\* a plausible slip: the retry wrapper does not count the attempt
ExtractRetryUncounted ==
    /\ ex_pc = "failed"
    /\ attempt < max_attempts
    /\ accumulated' = EmptyAccumulation
    /\ generated' = 0
    /\ requests' = <<>>
    /\ ex_pc' = "decode"
    /\ UNCHANGED <<llm, ex_chunks, trace_index, chunk_idx, attempt, all_facts,
                   chunk_results, visited, out, ex_error>>
    /\ UNCHANGED notExtractVars

\* extract.py 297: the retry wrapper starts the next attempt
ExtractRetry ==
    /\ ex_pc = "failed"
    /\ attempt < max_attempts
    /\ attempt' = attempt + 1
    /\ accumulated' = EmptyAccumulation
    /\ generated' = 0
    /\ requests' = <<>>
    /\ ex_pc' = "decode"
    /\ UNCHANGED <<llm, ex_chunks, trace_index, chunk_idx, all_facts, chunk_results,
                   visited, out, ex_error>>
    /\ UNCHANGED notExtractVars

\* a plausible slip: run_extraction swallows the failure and goes on with the
\* next chunk
ExtractGiveUpSkipsChunk ==
    /\ ex_pc = "failed"
    /\ attempt >= max_attempts
    /\ ex_pc' = "chunk"
    /\ chunk_idx' = chunk_idx + 1
    /\ UNCHANGED <<llm, ex_chunks, trace_index, attempt, accumulated, generated,
                   requests, all_facts, chunk_results, visited, out, ex_error>>
    /\ UNCHANGED notExtractVars

\* extract.py 297, 397-398: the last attempt failed; the retry wrapper raises
\* and run_extraction lets the exception through
ExtractGiveUp ==
    /\ ex_pc = "failed"
    /\ attempt >= max_attempts
    /\ ex_pc' = "raised"
    /\ ex_error' = "RetryError"
    /\ UNCHANGED <<llm, ex_chunks, trace_index, chunk_idx, attempt, accumulated,
                   generated, requests, all_facts, chunk_results, visited, out>>
    /\ UNCHANGED notExtractVars

\* extract.py 401-414: all chunks are done; ids are reassigned and the
\* ExtractionOutput is returned
RunExtractionReturn ==
    /\ ex_pc = "chunk"
    /\ chunk_idx > Len(ex_chunks)
    /\ out' = [returned |-> TRUE,
               extracted_facts |-> ReassignFactIds(all_facts),
               num_chunks |-> Len(ex_chunks)]
    /\ ex_pc' = "returned"
    /\ UNCHANGED <<llm, ex_chunks, trace_index, chunk_idx, attempt, accumulated,
                   generated, requests, all_facts, chunk_results, visited, ex_error>>
    /\ UNCHANGED notExtractVars

(***************************************************************************)
(* Strings.  A Python str is a sequence of one-character strings, so that  *)
(* the code's character-level operations (strip, lower, regular            *)
(* expressions, "in", split, sort, SequenceMatcher) are computed as the    *)
(* code computes them.  The alphabet is the printable ASCII range the      *)
(* statements of the model are written in; the code's characters outside   *)
(* it (typographic dashes, bullets, accented letters) occur in no string   *)
(* of the model, so the branches that handle them never apply.             *)
(***************************************************************************)
UpperChars ==
    <<"A", "B", "C", "D", "E", "F", "G", "H", "I", "J", "K", "L", "M",
      "N", "O", "P", "Q", "R", "S", "T", "U", "V", "W", "X", "Y", "Z">>

LowerChars ==
    <<"a", "b", "c", "d", "e", "f", "g", "h", "i", "j", "k", "l", "m",
      "n", "o", "p", "q", "r", "s", "t", "u", "v", "w", "x", "y", "z">>

\* the characters of the alphabet in code point order
CharOrder ==
    <<" ", "!", "%", "'", "(", ")", ",", "-", ".", "/">> \o DigitChars
    \o <<":", ";", "<", "=", ">">> \o UpperChars \o <<"_">> \o LowerChars

\* ord(c), up to an order-preserving renumbering
Ord(c) == CHOOSE k \in DOMAIN CharOrder : CharOrder[k] = c

\* the characters \w of the re module matches
WordChars == Range(UpperChars) \cup Range(LowerChars) \cup Range(DigitChars) \cup {"_"}

\* str.isdigit on one character
IsDigitChar(c) == \E k \in DOMAIN DigitChars : DigitChars[k] = c

\* \s of the re module
IsSpaceChar(c) == c = " "

\* \w of the re module
IsWordChar(c) == c \in WordChars

\* str.lower on one character
LowerChar(c) ==
    IF \E k \in DOMAIN UpperChars : UpperChars[k] = c
    THEN LowerChars[CHOOSE k \in DOMAIN UpperChars : UpperChars[k] = c]
    ELSE c

RECURSIVE Lower(_)
\* str.lower
Lower(s) == IF s = <<>> THEN <<>> ELSE <<LowerChar(Head(s))>> \o Lower(Tail(s))

RECURSIVE LStrip(_)
LStrip(s) ==
    IF s # <<>> /\ IsSpaceChar(Head(s)) THEN LStrip(Tail(s)) ELSE s

RECURSIVE RStrip(_)
RStrip(s) ==
    IF s # <<>> /\ IsSpaceChar(s[Len(s)]) THEN RStrip(SubSeq(s, 1, Len(s) - 1)) ELSE s

\* str.strip
Strip(s) == RStrip(LStrip(s))

RECURSIVE CollapseSpaces(_)
\* _WS_RE.sub(" ", t): every run of whitespace becomes one space
CollapseSpaces(s) ==
    IF s = <<>> THEN <<>>
    ELSE IF IsSpaceChar(Head(s))
         THEN <<" ">> \o CollapseSpaces(LStrip(s))
         ELSE <<Head(s)>> \o CollapseSpaces(Tail(s))

RECURSIVE SplitOnSpace(_)
\* [x for x in t.split(" ") if x]
SplitOnSpace(s) ==
    LET t == LStrip(s)
        n == IF \E k \in DOMAIN t : IsSpaceChar(t[k])
             THEN (CHOOSE k \in DOMAIN t :
                      /\ IsSpaceChar(t[k])
                      /\ \A j \in 1..(k - 1) : ~IsSpaceChar(t[j])) - 1
             ELSE Len(t)
    IN IF t = <<>> THEN <<>>
       ELSE <<SubSeq(t, 1, n)>> \o SplitOnSpace(SubSeq(t, n + 1, Len(t)))

RECURSIVE JoinWithSpace(_)
\* " ".join(parts)
JoinWithSpace(parts) ==
    IF parts = <<>> THEN <<>>
    ELSE IF Len(parts) = 1 THEN parts[1]
    ELSE parts[1] \o <<" ">> \o JoinWithSpace(Tail(parts))

\* p in s, for strings
IsInfix(p, s) ==
    \E k \in 0..(Len(s) - Len(p)) : \A j \in DOMAIN p : s[k + j] = p[j]

\* any(k in s for k in keywords)
AnyIn(keywords, s) == \E p \in keywords : IsInfix(p, s)

RECURSIVE StrKey(_)
\* the code points of a string, the key Python compares strings by
StrKey(s) == IF s = <<>> THEN <<>> ELSE <<Ord(Head(s))>> \o StrKey(Tail(s))

RECURSIVE SeqLess(_, _)
\* a < b for sequences of integers, as Python compares strings and tuples
SeqLess(a, b) ==
    IF b = <<>> THEN FALSE
    ELSE IF a = <<>> THEN TRUE
    ELSE IF Head(a) # Head(b) THEN Head(a) < Head(b)
    ELSE SeqLess(Tail(a), Tail(b))

RECURSIVE KeyLess(_, _)
\* a < b for tuples whose components are sequences of integers
KeyLess(a, b) ==
    IF a = <<>> \/ b = <<>> THEN FALSE
    ELSE IF Head(a) # Head(b) THEN SeqLess(Head(a), Head(b))
    ELSE KeyLess(Tail(a), Tail(b))

RECURSIVE InsertByKey(_, _, _)
\* insert index i after every index of order whose key is not greater
InsertByKey(order, i, keys) ==
    IF order = <<>> THEN <<i>>
    ELSE IF KeyLess(keys[i], keys[Head(order)]) THEN <<i>> \o order
    ELSE <<Head(order)>> \o InsertByKey(Tail(order), i, keys)

RECURSIVE SortedOrder(_, _)
\* the indices 1..n in the order a stable sort by keys puts them
SortedOrder(n, keys) ==
    IF n = 0 THEN <<>> ELSE InsertByKey(SortedOrder(n - 1, keys), n, keys)

\* the sequence a function on 1..n is
AsSeq(f) == SubSeq(f, 1, Len(f))

\* sorted(items, key=...): stable, keys[k] is the key of items[k]
SortedByKey(items, keys) ==
    LET ks == AsSeq(keys)
        order == SortedOrder(Len(items), ks)
    IN AsSeq([k \in DOMAIN items |-> items[order[k]]])

(***************************************************************************)
(* pipeline/normalize.py: text functions                                   *)
(***************************************************************************)
\* _STOP, the entries that can be written in the alphabet
STOP ==
    {<<"t", "h", "e">>,
     <<"a">>,
     <<"a", "n">>,
     <<"a", "n", "d">>,
     <<"o", "r">>,
     <<"o", "f">>,
     <<"t", "o">>,
     <<"i", "n">>,
     <<"f", "o", "r">>,
     <<"w", "i", "t", "h">>,
     <<"o", "n">>,
     <<"a", "t">>,
     <<"b", "y">>,
     <<"a", "s">>,
     <<"i", "s">>,
     <<"a", "r", "e">>,
     <<"l", "e">>,
     <<"l", "a">>,
     <<"l", "e", "s">>,
     <<"u", "n">>,
     <<"u", "n", "e">>,
     <<"d", "e", "s">>,
     <<"e", "t">>,
     <<"o", "u">>,
     <<"d", "e">>,
     <<"d", "u">>,
     <<"a", "u">>,
     <<"a", "u", "x">>,
     <<"d", "a", "n", "s">>,
     <<"p", "o", "u", "r">>,
     <<"a", "v", "e", "c">>,
     <<"s", "u", "r">>,
     <<"c", "h", "e", "z">>,
     <<"e", "n">>,
     <<"e", "s", "t">>,
     <<"s", "o", "n", "t">>}

\* _HEADER_TOKENS, the entries that can be written in the alphabet
HEADER_TOKENS ==
    {<<"t", "a", "b", "l", "e">>,
     <<"f", "i", "g", "u", "r", "e">>,
     <<"a", "n", "n", "e", "x", "e">>,
     <<"r", "e", "f", "e", "r", "e", "n", "c", "e", "s">>,
     <<"m", "e", "d", "i", "c", "a", "m", "e", "n", "t">>,
     <<"m", "e", "d", "i", "c", "a", "m", "e", "n", "t", "s">>,
     <<"p", "o", "s", "o", "l", "o", "g", "i", "e">>,
     <<"d", "o", "s", "e">>,
     <<"d", "o", "s", "e", "s">>,
     <<"d", "o", "s", "a", "g", "e">>,
     <<"m", "o", "d", "a", "l", "i", "t", "e", "s">>,
     <<"a", "j", "u", "s", "t", "e", "m", "e", "n", "t">>,
     <<"c", "o", "n", "t", "r", "e", "-", "i", "n", "d", "i", "c", "a", "t", "i", "o", "n", "s">>,
     <<"c", "o", "n", "t", "r", "e", "i", "n", "d", "i", "c", "a", "t", "i", "o", "n", "s">>,
     <<"c", "o", "n", "t", "r", "a", "i", "n", "d", "i", "c", "a", "t", "i", "o", "n", "s">>,
     <<"e", "f", "f", "e", "t", "s">>,
     <<"i", "n", "d", "e", "s", "i", "r", "a", "b", "l", "e", "s">>,
     <<"a", "d", "v", "e", "r", "s", "e">>,
     <<"e", "f", "f", "e", "c", "t", "s">>,
     <<"c", "l", "a", "s", "s", "e">>,
     <<"c", "l", "a", "s", "s">>,
     <<"s", "b", "p">>,
     <<"d", "b", "p">>,
     <<"t", "a">>,
     <<"p", "a">>,
     <<"b", "p">>,
     <<"m", "m", "h", "g">>,
     <<"m", "g">>,
     <<"g">>,
     <<"m", "l">>,
     <<"b", "i", "d">>,
     <<"t", "i", "d">>,
     <<"q", "i", "d">>,
     <<"p", "o">>}

\* normalize.py 52-61; _KEEP_PUNCT_RE keeps \w \s / % . : - ( ) '
normalize_text(s) ==
    LET Kept(c) ==
            IsWordChar(c) \/ IsSpaceChar(c) \/ c \in {"/", "%", ".", ":", "-", "(", ")", "'"}
        t1 == Strip(s)
        t2 == SelectSeq(t1, Kept)
        t3 == Strip(CollapseSpaces(t2))
    IN IF t3 # <<>> /\ t3[Len(t3)] = ":" THEN Strip(SubSeq(t3, 1, Len(t3) - 1)) ELSE t3

\* normalize.py 64-69; the characters kept are \w \s / % . '
tokenize(s) ==
    LET Kept(c) == IsWordChar(c) \/ IsSpaceChar(c) \/ c \in {"/", "%", ".", "'"}
        t1 == Lower(s)
        t2 == AsSeq([k \in DOMAIN t1 |-> IF Kept(t1[k]) THEN t1[k] ELSE " "])
    IN SplitOnSpace(Strip(CollapseSpaces(t2)))

\* normalize.py 72-81: the kept tokens, sorted, joined by spaces
fingerprint(s) ==
    LET IsDigitStr(tok) == tok # <<>> /\ \A k \in DOMAIN tok : IsDigitChar(tok[k])
        toks == tokenize(s)
        kept_toks == SelectSeq(toks, LAMBDA tok : tok \notin STOP /\ (IsDigitStr(tok) \/ Len(tok) >= 2))
        keys == AsSeq([k \in DOMAIN kept_toks |-> <<StrKey(kept_toks[k])>>])
    IN JoinWithSpace(SortedByKey(kept_toks, keys))

\* normalize.py 84-99
looks_like_header_or_junk(stmt, c) ==
    LET toks == tokenize(stmt)
        header_hits == Cardinality({k \in DOMAIN toks : toks[k] \in HEADER_TOKENS})
    IN \/ Len(stmt) < c.min_chars
       \/ toks = <<>>
       \/ (header_hits >= 2 /\ Len(toks) <= 10)
       \/ toks[1] \in {<<"t", "a", "b", "l", "e">>, <<"f", "i", "g", "u", "r", "e">>, <<"a", "n", "n", "e", "x", "e">>}

\* re.search(r"\b(\d{2,3})\s*(mmhg|mg|g|ml)\b", s)
HasDoseWithUnit(s) ==
    \E i \in DOMAIN s :
        /\ IsDigitChar(s[i])
        /\ (i = 1 \/ ~IsWordChar(s[i - 1]))
        /\ \E n \in {2, 3} :
              /\ i + n - 1 <= Len(s)
              /\ \A k \in i..(i + n - 1) : IsDigitChar(s[k])
              /\ \E sp \in 0..(Len(s) - (i + n - 1)) :
                    /\ \A k \in (i + n)..(i + n + sp - 1) : IsSpaceChar(s[k])
                    /\ \E u \in {<<"m", "m", "h", "g">>, <<"m", "g">>, <<"g">>, <<"m", "l">>} :
                          LET e == i + n + sp + Len(u) - 1
                          IN /\ e <= Len(s)
                             /\ \A k \in DOMAIN u : s[i + n + sp + k - 1] = u[k]
                             /\ (e = Len(s) \/ ~IsWordChar(s[e + 1]))

\* normalize.py 102-134
refine_fact_type(stmt, current) ==
    LET s == Lower(stmt)
        contra ==
            {<<"c", "o", "n", "t", "r", "e", "-", "i", "n", "d", "i", "c", "a", "t", "i", "o", "n">>,
             <<"c", "o", "n", "t", "r", "e", " ", "i", "n", "d", "i", "c", "a", "t", "i", "o", "n">>,
             <<"c", "o", "n", "t", "r", "a", "i", "n", "d", "i", "c", "a", "t", "i", "o", "n">>,
             <<"d", "o", " ", "n", "o", "t">>,
             <<"n", "e", " ", "p", "a", "s">>,
             <<"e", "v", "i", "t", "e", "r">>}
        exclusion ==
            {<<"e", "x", "c", "l", "u", "s", "i", "o", "n">>,
             <<"g", "r", "o", "s", "s", "e", "s", "s", "e">>,
             <<"a", "l", "l", "a", "i", "t", "e", "m", "e", "n", "t">>,
             <<"p", "r", "e", "g", "n", "a", "n", "c", "y">>,
             <<"b", "r", "e", "a", "s", "t", "f", "e", "e", "d", "i", "n", "g">>}
        red_flag ==
            {<<"u", "r", "g", "e", "n", "c", "e">>,
             <<"u", "r", "g", "e", "n", "t">>,
             <<"i", "m", "m", "e", "d", "i", "a", "t">>,
             <<"e", "m", "e", "r", "g", "e", "n", "c", "y">>,
             <<"i", "m", "m", "e", "d", "i", "a", "t", "e", "l", "y">>,
             <<"r", "e", "f", "e", "r">>}
        comparison ==
            {<<">", "=">>,
             <<"<", "=">>,
             <<">">>,
             <<"<">>}
        follow_up ==
            {<<"s", "u", "i", "v", "i">>,
             <<"r", "e", "e", "v", "a", "l", "u", "a", "t", "i", "o", "n">>,
             <<"m", "o", "n", "i", "t", "o", "r">>,
             <<"r", "e", "a", "s", "s", "e", "s", "s">>,
             <<"f", "o", "l", "l", "o", "w", "-", "u", "p">>,
             <<"f", "o", "l", "l", "o", "w", " ", "u", "p">>,
             <<"r", "e", "p", "e", "t", "e", "r">>,
             <<"m", "e", "s", "u", "r", "e", "r">>,
             <<"m", "e", "a", "s", "u", "r", "e">>}
        action ==
            {<<"p", "r", "e", "s", "c", "r", "i", "r", "e">>,
             <<"i", "n", "i", "t", "i", "e", "r">>,
             <<"c", "o", "m", "m", "e", "n", "c", "e", "r">>,
             <<"s", "t", "a", "r", "t">>,
             <<"i", "n", "i", "t", "i", "a", "t", "e">>,
             <<"t", "i", "t", "r", "e", "r">>,
             <<"t", "i", "t", "r", "a", "t", "e">>,
             <<"a", "d", "m", "i", "n", "i", "s", "t", "r", "e", "r">>,
             <<"a", "d", "m", "i", "n", "i", "s", "t", "e", "r">>}
        population_contra ==
            {<<"c", "o", "n", "t", "r", "e", "-", "i", "n", "d", "i", "c", "a", "t", "i", "o", "n">>,
             <<"c", "o", "n", "t", "r", "e", " ", "i", "n", "d", "i", "c", "a", "t", "i", "o", "n">>,
             <<"c", "o", "n", "t", "r", "a", "i", "n", "d", "i", "c", "a", "t", "i", "o", "n">>}
        population_follow_up ==
            {<<"a", "p", "p", "a", "r", "i", "t", "i", "o", "n">>,
             <<"a", "g", "g", "r", "a", "v", "a", "t", "i", "o", "n">>,
             <<"s", "i", "g", "n", "e", "s">>,
             <<"s", "y", "m", "p", "t", "o", "m", "e", "s">>,
             <<"a", "t", "t", "e", "i", "n", "t", "e", " ", "d", "e", "s", " ", "o", "r", "g", "a", "n", "e", "s", " ", "c", "i", "b", "l", "e", "s">>}
    IN IF AnyIn(contra, s) THEN "contraindication"
       ELSE IF AnyIn(exclusion, s) THEN "exclusion"
       ELSE IF AnyIn(red_flag, s) THEN "red_flag"
       ELSE IF /\ (HasDoseWithUnit(s) \/ AnyIn(comparison, s))
               /\ current \in {"other", "follow_up", "diagnostic"}
            THEN "threshold"
       ELSE IF AnyIn(follow_up, s) /\ current = "other" THEN "follow_up"
       ELSE IF AnyIn(action, s) /\ current = "other" THEN "action"
       ELSE IF current = "population" /\ AnyIn(population_contra, s)
            THEN "contraindication"
       ELSE IF current = "population" /\ AnyIn(population_follow_up, s)
            THEN "follow_up"
       ELSE current

\* normalize.py 137-155
refine_strength(stmt, current, fact_type) ==
    LET s == Lower(stmt)
        must ==
            {<<"d", "o", " ", "n", "o", "t">>,
             <<"n", "e", " ", "p", "a", "s">>,
             <<"j", "a", "m", "a", "i", "s">>,
             <<"n", "e", "v", "e", "r">>,
             <<"c", "o", "n", "t", "r", "e", "-", "i", "n", "d", "i", "c", "a", "t", "i", "o", "n">>,
             <<"c", "o", "n", "t", "r", "a", "i", "n", "d", "i", "c", "a", "t", "i", "o", "n">>,
             <<"d", "o", "i", "t">>,
             <<"m", "u", "s", "t">>,
             <<"r", "e", "q", "u", "i", "r", "e", "d">>}
        should ==
            {<<"d", "e", "v", "r", "a", "i", "t">>,
             <<"s", "h", "o", "u", "l", "d">>,
             <<"r", "e", "c", "o", "m", "m", "a", "n", "d">>,
             <<"r", "e", "c", "o", "m", "m", "e", "n", "d", "e", "d">>,
             <<"r", "e", "c", "o", "m", "m", "a", "n", "d", "e", "e">>}
        may ==
            {<<"c", "o", "n", "s", "i", "d", "e", "r">>,
             <<"p", "e", "u", "t", " ", "e", "t", "r", "e", " ", "e", "n", "v", "i", "s", "a", "g", "e">>,
             <<"m", "a", "y">>,
             <<"p", "e", "u", "t">>}
        consider ==
            {<<"c", "o", "n", "s", "i", "d">>,
             <<"e", "n", "v", "i", "s", "a", "g">>}
        keeps_must ==
            {<<"d", "o", "i", "t">>,
             <<"m", "u", "s", "t">>,
             <<"n", "e", " ", "p", "a", "s">>,
             <<"d", "o", " ", "n", "o", "t">>,
             <<"r", "e", "c", "o", "m", "m", "a", "n", "d">>,
             <<"s", "h", "o", "u", "l", "d">>,
             <<"d", "e", "v", "r", "a", "i", "t">>}
    IN IF AnyIn(must, s) THEN "must"
       ELSE IF AnyIn(should, s) THEN "should"
       ELSE IF AnyIn(may, s)
            THEN (IF AnyIn(consider, s) THEN "consider" ELSE "may")
       ELSE IF fact_type \in {"exclusion", "contraindication"} THEN "must"
       ELSE IF current = "must" /\ ~AnyIn(keeps_must, s) THEN "unclear"
       ELSE current

\* the flag as it came, whatever the strength
compute_requires_human_review_as_given(strength, current) == current

\* normalize.py 158-161
compute_requires_human_review(strength, current) ==
    IF strength \in {"may", "consider", "unclear"} THEN TRUE ELSE current

(***************************************************************************)
(* pipeline/normalize.py: facts, citations and normalize_and_canonicalize.  *)
(* A fact is a record of fact_id, fact_type, statement, strength,          *)
(* requires_human_review and citations; a citation is a record of          *)
(* chunk_id, line_start, line_end and quote.  The optional fields subject, *)
(* condition, action, notes and raw are carried along by the code and      *)
(* decide nothing; they are left out.                                      *)
(***************************************************************************)
\* Optional[str] = None
None == "None"

Cite(cid, ls, le, q) == [chunk_id |-> cid, line_start |-> ls, line_end |-> le, quote |-> q]

\* normalize.py 164-165
citation_key(c) == <<c.chunk_id, c.line_start, c.line_end>>

\* the key of a citation as the sort compares it
CitationSortKey(c) == <<StrKey(c.chunk_id), <<c.line_start>>, <<c.line_end>>>>

RECURSIVE BestByKey(_, _)
\* normalize.py 169-176: the dict "best", as the sequence of its values in
\* insertion order
BestByKey(cits, best) ==
    IF cits = <<>> THEN best
    ELSE LET c == Head(cits)
             hit == {k \in DOMAIN best : citation_key(best[k]) = citation_key(c)}
         IN IF hit = {} THEN BestByKey(Tail(cits), Append(best, c))
            ELSE LET k == CHOOSE x \in hit : TRUE
                 IN IF best[k].quote = None /\ c.quote # None
                    THEN BestByKey(Tail(cits), [best EXCEPT ![k] = c])
                    ELSE BestByKey(Tail(cits), best)

\* normalize.py 168-180
merge_citations(cits) ==
    LET vals == BestByKey(cits, <<>>)
    IN SortedByKey(vals, AsSeq([k \in DOMAIN vals |-> CitationSortKey(vals[k])]))

\* sorted by fact_id alone, the first one
choose_rep_smallest_id(facts) ==
    SortedByKey(facts, AsSeq([k \in DOMAIN facts |-> <<StrKey(facts[k].fact_id)>>]))[1]

\* normalize.py 183-184: sorted by (-len(statement), fact_id), the first one
choose_rep(facts) ==
    SortedByKey(facts, AsSeq([k \in DOMAIN facts |->
        <<<<0 - Len(facts[k].statement)>>, StrKey(facts[k].fact_id)>>]))[1]

\* normalize.py 324-327, 379-382: max(strengths, key=index in the ranking)
MaxStrength(facts) ==
    LET order == <<"unclear", "may", "consider", "should", "must">>
        Rank(s) == CHOOSE k \in DOMAIN order : order[k] = s
        top == CHOOSE k \in DOMAIN facts :
                   \A j \in DOMAIN facts : Rank(facts[j].strength) <= Rank(facts[k].strength)
    IN facts[top].strength

\* normalize.py 319-332 and 374-386: the fact a group of two or more becomes
MergeGroup(facts, ft) ==
    LET rep == choose_rep(facts)
    IN [fact_id |-> rep.fact_id,
        fact_type |-> ft,
        statement |-> rep.statement,
        strength |-> MaxStrength(facts),
        requires_human_review |-> \E k \in DOMAIN facts : facts[k].requires_human_review,
        citations |-> merge_citations(Flatten(AsSeq([k \in DOMAIN facts |-> facts[k].citations])))]

\* ---- 1) normalize + filter + light refine (normalize.py 273-304) ----
\* normalize.py 283-301: the kept fact
RefineFact(f) ==
    LET stmt == normalize_text(f.statement)
        new_type == refine_fact_type(stmt, f.fact_type)
        new_strength == refine_strength(stmt, f.strength, new_type)
    IN [fact_id |-> f.fact_id,
        fact_type |-> new_type,
        statement |-> stmt,
        strength |-> new_strength,
        requires_human_review |->
            compute_requires_human_review(new_strength, f.requires_human_review),
        citations |-> f.citations]

\* normalize.py 274-301
FilterAndRefine(facts, c) ==
    LET survivors ==
            SelectSeq(facts, LAMBDA f :
                ~looks_like_header_or_junk(normalize_text(f.statement), c))
    IN AsSeq([k \in DOMAIN survivors |-> RefineFact(survivors[k])])

\* ---- 2) exact dedup by (fact_type, fingerprint) (normalize.py 306-335) ----
BucketKey(f) == <<f.fact_type, fingerprint(f.statement)>>

RECURSIVE DistinctInOrder(_, _)
\* the keys of a dict filled in this order
DistinctInOrder(ks, seen) ==
    IF ks = <<>> THEN seen
    ELSE IF \E k \in DOMAIN seen : seen[k] = Head(ks)
         THEN DistinctInOrder(Tail(ks), seen)
         ELSE DistinctInOrder(Tail(ks), Append(seen, Head(ks)))

RECURSIVE Pick(_, _, _)
\* the items whose key is this one, in order
Pick(items, ks, key) ==
    IF items = <<>> THEN <<>>
    ELSE (IF Head(ks) = key THEN <<Head(items)>> ELSE <<>>)
         \o Pick(Tail(items), Tail(ks), key)

\* normalize.py 307-332: one fact per bucket, buckets in insertion order
ExactDedup(facts) ==
    LET bkeys == AsSeq([k \in DOMAIN facts |-> BucketKey(facts[k])])
        keys == DistinctInOrder(bkeys, <<>>)
        buckets == AsSeq([k \in DOMAIN keys |-> Pick(facts, bkeys, keys[k])])
    IN AsSeq([k \in DOMAIN keys |->
           IF Len(buckets[k]) = 1 THEN buckets[k][1]
           ELSE MergeGroup(buckets[k], keys[k][1])])

\* ---- 3) fuzzy dedup within same fact_type (normalize.py 337-390) ----
RECURSIVE CommonPrefixLen(_, _)
CommonPrefixLen(a, b) ==
    IF a = <<>> \/ b = <<>> \/ Head(a) # Head(b) THEN 0
    ELSE 1 + CommonPrefixLen(Tail(a), Tail(b))

\* SequenceMatcher.find_longest_match without junk: the longest block
\* a[i+1..i+k] = b[j+1..j+k]; of the longest, the one that starts earliest
\* in a, and of those the one that starts earliest in b
FindLongestMatch(a, b) ==
    LET size == AsSeq([i \in DOMAIN a |-> AsSeq([j \in DOMAIN b |->
                    CommonPrefixLen(SubSeq(a, i, Len(a)), SubSeq(b, j, Len(b)))])])
        starts == (DOMAIN a) \X (DOMAIN b)
        longest == CHOOSE k \in {size[p[1]][p[2]] : p \in starts} :
                       \A q \in starts : size[q[1]][q[2]] <= k
        firsts == {p \in starts : size[p[1]][p[2]] = longest}
        best == CHOOSE p \in firsts :
                    \A q \in firsts : p[1] < q[1] \/ (p[1] = q[1] /\ p[2] <= q[2])
    IN [i |-> best[1] - 1, j |-> best[2] - 1, k |-> longest]

RECURSIVE MatchedChars(_, _)
\* the total size of SequenceMatcher.get_matching_blocks: the longest match,
\* then the same to its left and to its right
MatchedChars(a, b) ==
    IF a = <<>> \/ b = <<>> THEN 0
    ELSE LET m == FindLongestMatch(a, b)
         IN IF m.k = 0 THEN 0
            ELSE m.k
                 + MatchedChars(SubSeq(a, 1, m.i), SubSeq(b, 1, m.j))
                 + MatchedChars(SubSeq(a, m.i + m.k + 1, Len(a)),
                                SubSeq(b, m.j + m.k + 1, Len(b)))

\* normalize.py 215-216 and 366: fuzzy_ratio(a, b) >= threshold, where
\* ratio = 2.0 * matches / (len(a) + len(b)), or 1.0 for two empty strings,
\* and the threshold is the fraction th.num / th.den
FuzzyAtLeast(a, b, th) ==
    IF Len(a) + Len(b) = 0 THEN th.den >= th.num
    ELSE 2 * MatchedChars(a, b) * th.den >= th.num * (Len(a) + Len(b))

RECURSIVE FuzzyInnerCapDrops(_, _, _, _, _)
\* the loop over j that, when the cap is hit, marks the remaining facts used
FuzzyInnerCapDrops(facts, i, j, st, c) ==
    IF j > Len(facts) THEN st
    ELSE IF j \in st.used THEN FuzzyInnerCapDrops(facts, i, j + 1, st, c)
    ELSE IF st.comps + 1 > c.max_fuzzy_comp_per_type
         THEN [st EXCEPT !.comps = st.comps + 1, !.capped = TRUE,
                         !.used = st.used \cup (j..Len(facts))]
    ELSE IF FuzzyAtLeast(Lower(facts[i].statement), Lower(facts[j].statement),
                         c.fuzzy_threshold)
         THEN FuzzyInnerCapDrops(facts, i, j + 1,
                         [st EXCEPT !.comps = st.comps + 1,
                                    !.group = Append(st.group, j),
                                    !.used = st.used \cup {j}], c)
    ELSE FuzzyInnerCapDrops(facts, i, j + 1, [st EXCEPT !.comps = st.comps + 1], c)

RECURSIVE FuzzyInner(_, _, _, _, _)
\* normalize.py 357-368: the loop over j for one i; st holds the group (as
\* indices), the used set and the comparison counter of this type
FuzzyInner(facts, i, j, st, c) ==
    IF j > Len(facts) THEN st
    ELSE IF j \in st.used THEN FuzzyInner(facts, i, j + 1, st, c)
    ELSE IF st.comps + 1 > c.max_fuzzy_comp_per_type
         THEN [st EXCEPT !.comps = st.comps + 1, !.capped = TRUE]
    ELSE IF FuzzyAtLeast(Lower(facts[i].statement), Lower(facts[j].statement),
                         c.fuzzy_threshold)
         THEN FuzzyInner(facts, i, j + 1,
                         [st EXCEPT !.comps = st.comps + 1,
                                    !.group = Append(st.group, j),
                                    !.used = st.used \cup {j}], c)
    ELSE FuzzyInner(facts, i, j + 1, [st EXCEPT !.comps = st.comps + 1], c)

\* normalize.py 370-387: the group of one i closed; a single fact is kept, a
\* larger group is merged; st.out collects merged_fuzzy
FuzzyClose(facts, ft, st) ==
    LET members == AsSeq([k \in DOMAIN st.group |-> facts[st.group[k]]])
    IN IF Len(members) = 1
       THEN [st EXCEPT !.out = Append(st.out, members[1])]
       ELSE [st EXCEPT !.out = Append(st.out, MergeGroup(members, ft)),
                       !.merges = st.merges + Len(members) - 1]

RECURSIVE FuzzyOuter(_, _, _, _, _)
\* normalize.py 350-387: the loop over i
FuzzyOuter(facts, ft, i, st, c) ==
    IF i > Len(facts) THEN st
    ELSE IF i \in st.used THEN FuzzyOuter(facts, ft, i + 1, st, c)
    ELSE FuzzyOuter(facts, ft, i + 1,
                    FuzzyClose(facts, ft,
                               FuzzyInner(facts, i, i + 1,
                                          [st EXCEPT !.group = <<i>>,
                                                     !.used = st.used \cup {i}], c)),
                    c)

\* normalize.py 345-387 for one fact_type: its facts sorted by lowercased
\* statement, then grouped
FuzzyDedupType(facts, ft, c) ==
    LET mine == SelectSeq(facts, LAMBDA f : f.fact_type = ft)
        sorted == SortedByKey(mine, AsSeq([k \in DOMAIN mine |-> <<StrKey(Lower(mine[k].statement))>>]))
    IN FuzzyOuter(sorted, ft, 1,
                  [group |-> <<>>, used |-> {}, comps |-> 0, capped |-> FALSE,
                   out |-> <<>>, merges |-> 0], c)

\* normalize.py 338-390: the results of the types put together
FuzzyCollect(per) ==
    [facts |-> Flatten(AsSeq([k \in DOMAIN per |-> per[k].out])),
     merges |-> SeqSum(AsSeq([k \in DOMAIN per |-> per[k].merges])),
     capped |-> \E k \in DOMAIN per : per[k].capped]

\* normalize.py 338-387: the types in insertion order of by_type
FuzzyDedup(facts, c) ==
    LET types == DistinctInOrder(AsSeq([k \in DOMAIN facts |-> facts[k].fact_type]), <<>>)
    IN FuzzyCollect(AsSeq([k \in DOMAIN types |-> FuzzyDedupType(facts, types[k], c)]))

\* ---- 3.5) tighten citations (normalize.py 219-263, 392-427) ----
\* line_text_by_no = None
NoLineText == [given |-> FALSE, text |-> <<>>]

\* normalize.py 237-242: (n, normalized lowercased text) for the lines of
\* lo..hi that the map has
RECURSIVE SpanLines(_, _, _)
SpanLines(lo, hi, text) ==
    IF lo > hi THEN <<>>
    ELSE (IF lo \in DOMAIN text
          THEN <<[n |-> lo, txt |-> Lower(normalize_text(text[lo]))]>>
          ELSE <<>>) \o SpanLines(lo + 1, hi, text)

\* normalize.py 255-261: the first window, by width then by position, whose
\* joined text contains the statement; <<>> if there is none
FirstWindow(span, stmt_norm, max_window) ==
    LET Joined(i, w) == JoinWithSpace([k \in 1..w |-> span[i + k - 1].txt])
        hits == {p \in (2..max_window) \X (1..Len(span)) :
                    /\ p[2] + p[1] - 1 <= Len(span)
                    /\ IsInfix(stmt_norm, Joined(p[2], p[1]))}
    IN IF hits = {} THEN <<>>
       ELSE <<CHOOSE p \in hits :
                 \A q \in hits : p[1] < q[1] \/ (p[1] = q[1] /\ p[2] <= q[2])>>

\* _tighten_citation_span that searches every line the map has
tighten_citation_span_all_lines(statement, citation, text, max_window) ==
    LET stmt_norm == Lower(normalize_text(statement))
        hit == {n \in DOMAIN text : IsInfix(stmt_norm, Lower(normalize_text(text[n])))}
    IN IF hit = {} \/ stmt_norm = <<>> THEN citation
       ELSE LET n == CHOOSE x \in hit : \A y \in hit : x <= y
            IN [citation EXCEPT !.line_start = n, !.line_end = n]

\* normalize.py 219-263
tighten_citation_span(statement, citation, text, max_window) ==
    LET stmt_norm == Lower(normalize_text(statement))
        ls == Min(citation.line_start, citation.line_end)
        le == Max(citation.line_start, citation.line_end)
        span == SpanLines(ls, le, text)
        single == {k \in DOMAIN span : IsInfix(stmt_norm, span[k].txt)}
        win == FirstWindow(span, stmt_norm, Max(2, max_window))
    IN IF span = <<>> \/ stmt_norm = <<>> THEN citation
       ELSE IF single # {}
            THEN LET k == CHOOSE x \in single : \A y \in single : x <= y
                 IN [citation EXCEPT !.line_start = span[k].n, !.line_end = span[k].n]
       ELSE IF win # <<>>
            THEN [citation EXCEPT !.line_start = span[win[1][2]].n,
                                  !.line_end = span[win[1][2] + win[1][1] - 1].n]
       ELSE citation

\* normalize.py 396-423: every citation of every fact, in place
TightenFacts(facts, text, c) ==
    AsSeq([k \in DOMAIN facts |->
        [facts[k] EXCEPT !.citations =
            [m \in DOMAIN facts[k].citations |->
                tighten_citation_span(facts[k].statement, facts[k].citations[m], text,
                                      c.citation_tighten_max_window)]]])

\* normalize.py 405-406: the citations whose span changed
ChangedSpans(before, after) ==
    SeqSum(AsSeq([k \in DOMAIN before |->
        Cardinality({m \in DOMAIN before[k].citations :
            <<after[k].citations[m].line_start, after[k].citations[m].line_end>>
                # <<before[k].citations[m].line_start, before[k].citations[m].line_end>>})]))

\* ---- 4) deterministic re-id (normalize.py 429-447) ----
\* normalize.py 430: (fact_type.value, statement.lower(), fact_id); the
\* FactType values are listed in string order
ReIdKey(f) ==
    LET order == <<"action", "contraindication", "diagnostic", "exclusion", "follow_up",
                   "other", "population", "red_flag", "threshold">>
        rank == CHOOSE k \in DOMAIN order : order[k] = f.fact_type
    IN <<<<rank>>, StrKey(Lower(f.statement)), StrKey(f.fact_id)>>

\* ids in the order the merged facts are listed
ReIdentifyUnsorted(facts) ==
    AsSeq([k \in DOMAIN facts |-> [facts[k] EXCEPT !.fact_id = <<"f">> \o ZeroPad4(k)]])

\* normalize.py 430-447
ReIdentify(facts) ==
    LET sorted == SortedByKey(facts, AsSeq([k \in DOMAIN facts |-> ReIdKey(facts[k])]))
    IN AsSeq([k \in DOMAIN sorted |-> [sorted[k] EXCEPT !.fact_id = <<"f">> \o ZeroPad4(k)]])

(***************************************************************************)
(* pipeline/synthesize_workflow.py                                         *)
(***************************************************************************)
\* synthesize_workflow.py 141: max_n of the review action's citations
review_citations_cap == 8

\* _cap_citations that keeps nothing
cap_citations_none(cits, max_n) == <<>>

\* synthesize_workflow.py 37-41
cap_citations(cits, max_n) ==
    IF max_n <= 0 THEN <<>> ELSE SubSeq(cits, 1, Min(max_n, Len(cits)))

RECURSIVE FirstByKey(_, _)
\* synthesize_workflow.py 53-65: the first citation of every key
FirstByKey(cits, acc) ==
    IF cits = <<>> THEN acc
    ELSE IF \E k \in DOMAIN acc : citation_key(acc[k]) = citation_key(Head(cits))
         THEN FirstByKey(Tail(cits), acc)
         ELSE FirstByKey(Tail(cits), Append(acc, Head(cits)))

\* synthesize_workflow.py 44-66, _merge_citations
merge_fact_citations(facts) ==
    LET all_cits == Flatten(AsSeq([k \in DOMAIN facts |-> facts[k].citations]))
        sorted == SortedByKey(all_cits, AsSeq([k \in DOMAIN all_cits |-> CitationSortKey(all_cits[k])]))
    IN FirstByKey(sorted, <<>>)

\* an IdGen that never counts
NodeIdNoCount(prefix, n) == <<prefix>> \o ZeroPad4(1)

\* synthesize_workflow.py 24-34: IdGen, the n-th id of a prefix
NodeId(prefix, n) == <<prefix>> \o ZeroPad4(n)

DecisionNode(id, t, f, cits) ==
    [node_id |-> id, node_type |-> "decision", true_next |-> t, false_next |-> f,
     citations |-> cits]

ActionNode(id, cits) ==
    [node_id |-> id, node_type |-> "action", requires_human_review |-> TRUE,
     citations |-> cits]

\* schemas_workflow.py 61-66: an end node has no citations field
EndNode(id) == [node_id |-> id, node_type |-> "end"]

\* synthesize_workflow.py 73-80: the buckets
PopulationFacts(facts) == SelectSeq(facts, LAMBDA f : f.fact_type = "population")

ExclContraFacts(facts) ==
    SelectSeq(facts, LAMBDA f : f.fact_type \in {"exclusion", "contraindication"})

RedFlagFacts(facts) == SelectSeq(facts, LAMBDA f : f.fact_type = "red_flag")

ReviewFacts(facts) == SelectSeq(facts, LAMBDA f : f.requires_human_review)

\* synthesize_workflow.py 140: review_facts if review_facts else all facts
ReviewSource(facts) == IF ReviewFacts(facts) # <<>> THEN ReviewFacts(facts) ELSE facts

\* synthesize_workflow.py 69-224
synthesize_workflow(facts) ==
    LET e_not_applicable_id == NodeId("e", 1)
        e_excluded_id == NodeId("e", 2)
        a_red_flags_id == NodeId("a", 1)
        a_review_id == NodeId("a", 2)
        d_population_id == NodeId("d", 1)
        d_excl_id == NodeId("d", 2)
        d_red_id == NodeId("d", 3)
        review_cits_full == merge_fact_citations(ReviewSource(facts))
    IN [nodes |->
            <<DecisionNode(d_population_id, d_excl_id, e_not_applicable_id,
                           merge_fact_citations(PopulationFacts(facts))),
              DecisionNode(d_excl_id, e_excluded_id, d_red_id,
                           merge_fact_citations(ExclContraFacts(facts))),
              DecisionNode(d_red_id, a_red_flags_id, a_review_id,
                           merge_fact_citations(RedFlagFacts(facts))),
              ActionNode(a_red_flags_id, merge_fact_citations(RedFlagFacts(facts))),
              ActionNode(a_review_id, cap_citations(review_cits_full, review_citations_cap)),
              EndNode(e_not_applicable_id),
              EndNode(e_excluded_id)>>,
        start_node_id |-> d_population_id,
        requires_human_review |-> TRUE,
        warnings |->
            (IF PopulationFacts(facts) = <<>> THEN <<"no_population">> ELSE <<>>)
            \o (IF ExclContraFacts(facts) = <<>> THEN <<"no_excl_contra">> ELSE <<>>)
            \o (IF RedFlagFacts(facts) = <<>> THEN <<"no_red_flag">> ELSE <<>>),
        review_citations_available |-> Len(review_cits_full)]

(***************************************************************************)
(* normalize_and_canonicalize followed by synthesize_workflow, as steps 6  *)
(* and 7 of the pipeline run them, over a guideline of five lines in two   *)
(* chunks                                                                  *)
(***************************************************************************)
\* the most facts of an ExtractionOutput given to normalize_and_canonicalize
MaxNormFacts == 2

\* the trace index of the guideline: c0001 = lines 1..2, c0002 = lines 3..5
GuidelineIndex == BuildTraceIndex(ArtifactChunks(2))

\* the lines artifact of the guideline, line_no -> text
GuidelineText ==
    (1 :> <<"A", "d", "u", "l", "t", "s", " ", "w", "i", "t", "h", " ", "h", "i", "g", "h", " ", "b", "p", ".">>)
    @@ (2 :> <<"D", "o", " ", "n", "o", "t", " ", "u", "s", "e", " ", "i", "n", " ", "p", "r", "e", "g", "n", "a", "n", "c", "y">>)
    @@ (3 :> <<"R", "e", "f", "e", "r", " ", "u", "r", "g", "e", "n", "t">>)
    @@ (4 :> <<"c", "a", "s", "e", "s", " ", "n", "o", "w">>)
    @@ (5 :> <<"M", "a", "y", " ", "s", "t", "a", "r", "t", " ", "d", "r", "u", "g", ":", " ", "5", "0", " ", "m", "g">>)

\* line_text_by_no: None, the lines artifact, or a map that lacks line 4
LineTextMaps ==
    {NoLineText,
     [given |-> TRUE, text |-> GuidelineText],
     [given |-> TRUE, text |-> [n \in {1, 2, 3, 5} |-> GuidelineText[n]]]}

\* normalize.py 44-49 and run_step6.py 32-37: the default NormalizeConfig
DefaultNormalizeConfig ==
    [min_chars |-> 10, fuzzy_threshold |-> [num |-> 94, den |-> 100],
     max_fuzzy_comp_per_type |-> 8000, citation_tighten_max_window |-> 4]

\* a NormalizeConfig whose comparison cap is hit by the first comparison,
\* with the smallest window
TightNormalizeConfig ==
    [min_chars |-> 10, fuzzy_threshold |-> [num |-> 94, den |-> 100],
     max_fuzzy_comp_per_type |-> 0, citation_tighten_max_window |-> 0]

NormalizeConfigs == {DefaultNormalizeConfig, TightNormalizeConfig}

Fact(id, ft, stmt, st, rhr, cits) ==
    [fact_id |-> id, fact_type |-> ft, statement |-> stmt, strength |-> st,
     requires_human_review |-> rhr, citations |-> cits]

C0001 == <<"c", "0", "0", "0", "1">>

C0002 == <<"c", "0", "0", "0", "2">>

\* every citation that lies in a chunk of the guideline, in key order
AllGuidelineCitations ==
    <<Cite(C0001, 1, 1, None), Cite(C0001, 1, 2, None), Cite(C0001, 2, 2, None),
      Cite(C0002, 3, 3, None), Cite(C0002, 3, 4, None), Cite(C0002, 3, 5, None),
      Cite(C0002, 4, 4, None), Cite(C0002, 4, 5, None), Cite(C0002, 5, 5, None)>>

\* the facts an ExtractionOutput of the model is made of: schema-valid facts
\* whose citations lie in the chunk they name
FactPool ==
    {Fact(<<"f", "0", "0", "0", "1">>, "population", <<"A", "d", "u", "l", "t", "s", " ", "w", "i", "t", "h", " ", " ", "h", "i", "g", "h", " ", "b", "p">>, "should", FALSE,
          <<Cite(C0001, 1, 2, None)>>),
     Fact(<<"f", "0", "0", "0", "2">>, "other", <<"D", "o", " ", "n", "o", "t", " ", "u", "s", "e", " ", "i", "n", " ", "p", "r", "e", "g", "n", "a", "n", "c", "y", "!">>, "unclear", FALSE,
          <<Cite(C0002, 3, 3, "q")>>),
     Fact(<<"f", "0", "0", "0", "3">>, "other", <<"R", "e", "f", "e", "r", " ", "u", "r", "g", "e", "n", "t", " ", "c", "a", "s", "e", "s">>, "must", FALSE,
          <<Cite(C0002, 3, 5, None)>>),
     Fact(<<"f", "0", "0", "0", "4">>, "red_flag", <<"u", "r", "g", "e", "n", "t", " ", "c", "a", "s", "e", "s", " ", "r", "e", "f", "e", "r">>, "should", TRUE,
          <<Cite(C0002, 3, 3, None), Cite(C0002, 3, 5, "q")>>),
     Fact(<<"f", "0", "0", "0", "5">>, "red_flag", <<"R", "e", "f", "e", "r", " ", "u", "r", "g", "e", "n", "t", " ", "c", "a", "s", "e", "s", ".">>, "may", FALSE,
          <<Cite(C0002, 4, 5, None), Cite(C0002, 3, 4, None)>>),
     Fact(<<"f", "0", "0", "0", "6">>, "other", <<"T", "a", "b", "l", "e", " ", "2", ":", " ", "d", "o", "s", "e", " ", "m", "g">>, "unclear", FALSE,
          <<Cite(C0001, 1, 1, None)>>),
     Fact(<<"f", "0", "0", "0", "3">>, "other", <<"M", "a", "y", " ", "s", "t", "a", "r", "t", " ", "d", "r", "u", "g">>, "unclear", FALSE,
          <<Cite(C0002, 5, 5, None), Cite(C0002, 4, 5, None)>>),
     Fact(<<"f", "0", "0", "0", "8">>, "follow_up", <<"R", "e", "a", "s", "s", "e", "s", "s", " ", "b", "p", " ", "m", "o", "n", "t", "h", "l", "y">>, "should", FALSE,
          AllGuidelineCitations),
     Fact(<<"f", "0", "0", "0", "7">>, "red_flag", <<"t", "h", "e", " ", "u", "r", "g", "e", "n", "t", " ", "c", "a", "s", "e", "s", " ", "r", "e", "f", "e", "r">>, "may", FALSE,
          <<Cite(C0001, 1, 1, "q")>>)}

NoWorkflow == [nodes |-> <<>>]

NoCounts == [dropped |-> 0, exact_merges |-> 0, fuzzy_merges |-> 0, changed |-> 0,
             capped |-> FALSE]

NormIdle ==
    /\ nz_pc = "idle"
    /\ extraction = <<>>
    /\ nz_cfg = DefaultNormalizeConfig
    /\ line_text_by_no = NoLineText
    /\ kept = <<>>
    /\ merged_exact = <<>>
    /\ merged_fuzzy = <<>>
    /\ cleaned = <<>>
    /\ step6 = NoCounts
    /\ workflow = NoWorkflow

\* normalize_and_canonicalize is called with an ExtractionOutput, a
\* configuration and a line-text map or None
NormInit ==
    /\ nz_pc = "filter"
    /\ extraction \in SeqsUpTo(FactPool, MaxNormFacts)
    /\ nz_cfg \in NormalizeConfigs
    /\ line_text_by_no \in LineTextMaps
    /\ kept = <<>>
    /\ merged_exact = <<>>
    /\ merged_fuzzy = <<>>
    /\ cleaned = <<>>
    /\ step6 = NoCounts
    /\ workflow = NoWorkflow

\* normalize.py 273-304
NormalizeFilter ==
    /\ nz_pc = "filter"
    /\ kept' = FilterAndRefine(extraction, nz_cfg)
    /\ step6' = [step6 EXCEPT !.dropped = Len(extraction) - Len(kept')]
    /\ nz_pc' = "exact"
    /\ UNCHANGED <<extraction, nz_cfg, line_text_by_no, merged_exact, merged_fuzzy,
                   cleaned, workflow>>
    /\ UNCHANGED notNormVars

\* normalize.py 306-335
NormalizeExactDedup ==
    /\ nz_pc = "exact"
    /\ merged_exact' = ExactDedup(kept)
    /\ step6' = [step6 EXCEPT !.exact_merges = Len(kept) - Len(merged_exact')]
    /\ nz_pc' = "fuzzy"
    /\ UNCHANGED <<extraction, nz_cfg, line_text_by_no, kept, merged_fuzzy, cleaned,
                   workflow>>
    /\ UNCHANGED notNormVars

\* normalize.py 337-390
NormalizeFuzzyDedup ==
    /\ nz_pc = "fuzzy"
    /\ \E r \in {FuzzyDedup(merged_exact, nz_cfg)} :
          /\ merged_fuzzy' = r.facts
          /\ step6' = [step6 EXCEPT !.fuzzy_merges = r.merges, !.capped = r.capped]
    /\ nz_pc' = "tighten"
    /\ UNCHANGED <<extraction, nz_cfg, line_text_by_no, kept, merged_exact, cleaned,
                   workflow>>
    /\ UNCHANGED notNormVars

\* normalize.py 392-427: only when a line-text map was given
NormalizeTighten ==
    /\ nz_pc = "tighten"
    /\ IF line_text_by_no.given
       THEN /\ merged_fuzzy' = TightenFacts(merged_fuzzy, line_text_by_no.text, nz_cfg)
            /\ step6' = [step6 EXCEPT !.changed = ChangedSpans(merged_fuzzy, merged_fuzzy')]
       ELSE UNCHANGED <<merged_fuzzy, step6>>
    /\ nz_pc' = "reid"
    /\ UNCHANGED <<extraction, nz_cfg, line_text_by_no, kept, merged_exact, cleaned,
                   workflow>>
    /\ UNCHANGED notNormVars

\* normalize.py 429-457
NormalizeReId ==
    /\ nz_pc = "reid"
    /\ cleaned' = ReIdentify(merged_fuzzy)
    /\ nz_pc' = "done"
    /\ UNCHANGED <<extraction, nz_cfg, line_text_by_no, kept, merged_exact, merged_fuzzy,
                   step6, workflow>>
    /\ UNCHANGED notNormVars

\* run_step7: synthesize_workflow on the cleaned ExtractionOutput
SynthesizeWorkflow ==
    /\ nz_pc = "done"
    /\ workflow' = synthesize_workflow(cleaned)
    /\ nz_pc' = "synth"
    /\ UNCHANGED <<extraction, nz_cfg, line_text_by_no, kept, merged_exact, merged_fuzzy,
                   cleaned, step6>>
    /\ UNCHANGED notNormVars

(***************************************************************************)
(* pipeline/ingest.py: parse_guideline_lines                               *)
(***************************************************************************)
\* the number of digits a string starts with
LeadingDigits(s) ==
    CHOOSE n \in 0..Len(s) :
        /\ \A k \in 1..n : IsDigitChar(s[k])
        /\ n = Len(s) \/ ~IsDigitChar(s[n + 1])

\* ingest.py 11-20 and 44-51: the first of _LINE_PATTERNS that matches the
\* line.  After leading whitespace and the digits comes "." or ")" (patterns
\* 1, 2), optional whitespace and "-" (pattern 3), or whitespace and at least
\* one more character (pattern 4); the text is the rest, stripped
ParseLine(raw_line) ==
    LET body == LStrip(raw_line)
        n == LeadingDigits(body)
        rest == SubSeq(body, n + 1, Len(body))
        dash == LStrip(rest)
    IN IF n = 0 THEN [ok |-> FALSE]
       ELSE IF rest # <<>> /\ rest[1] \in {".", ")"}
            THEN [ok |-> TRUE, line_no |-> DigitsValue(SubSeq(body, 1, n)),
                  text |-> Strip(Tail(rest))]
       ELSE IF dash # <<>> /\ dash[1] = "-"
            THEN [ok |-> TRUE, line_no |-> DigitsValue(SubSeq(body, 1, n)),
                  text |-> Strip(Tail(dash))]
       ELSE IF Len(rest) >= 2 /\ IsSpaceChar(rest[1])
            THEN [ok |-> TRUE, line_no |-> DigitsValue(SubSeq(body, 1, n)),
                  text |-> Strip(rest)]
       ELSE [ok |-> FALSE]

\* contracts.py 15-19
LineRecord(line_no, text) == [line_no |-> line_no, text |-> text]

NoIngestError == [kind |-> "none", expected |-> 0, got |-> 0]

\* the lines a guideline file is made of: numbered in each of the four
\* formats, blank, and not parseable
MaxFileLines == 4

FileLinePool ==
    {<<"1", ".", " ", "a">>, <<"2", ")", " ", "b">>, <<" ", "3", " ", "-", " ", "c", " ">>, <<"4", " ", "d">>, <<" ", " ">>, <<"5", "x">>, <<"0", "2", ".">>}

IngestIdle ==
    /\ ing_pc = "idle"
    /\ ing_file = <<>>
    /\ ing_idx = 0
    /\ ing_records = <<>>
    /\ ing_expected = 0
    /\ ing_seen = {}
    /\ ing_error = NoIngestError

\* ingest.py 32-35
IngestInit ==
    /\ ing_pc = "parse"
    /\ ing_file \in SeqsUpTo(FileLinePool, MaxFileLines)
    /\ ing_idx = 1
    /\ ing_records = <<>>
    /\ ing_expected = 0
    /\ ing_seen = {}
    /\ ing_error = NoIngestError

\* ingest.py 36-59: one turn of the loop over the lines of the file
IngestReadLine ==
    /\ ing_pc = "parse"
    /\ ing_idx <= Len(ing_file)
    /\ IF Strip(ing_file[ing_idx]) = <<>>
       THEN /\ ing_idx' = ing_idx + 1
            /\ UNCHANGED <<ing_pc, ing_records, ing_error>>
       ELSE \E parsed \in {ParseLine(ing_file[ing_idx])} :
               IF parsed.ok
               THEN /\ ing_records' =
                          Append(ing_records, LineRecord(parsed.line_no, parsed.text))
                    /\ ing_idx' = ing_idx + 1
                    /\ UNCHANGED <<ing_pc, ing_error>>
               ELSE /\ ing_pc' = "raised"
                    /\ ing_error' =
                          [kind |-> "UnparseableLine", expected |-> 0, got |-> ing_idx]
                    /\ UNCHANGED <<ing_idx, ing_records>>
    /\ UNCHANGED <<ing_file, ing_expected, ing_seen>>
    /\ UNCHANGED notIngestVars

\* ingest.py 61-66
IngestCheckEmpty ==
    /\ ing_pc = "parse"
    /\ ing_idx > Len(ing_file)
    /\ IF ing_records = <<>>
       THEN /\ ing_pc' = "raised"
            /\ ing_error' = [kind |-> "EmptyGuideline", expected |-> 0, got |-> 0]
            /\ UNCHANGED <<ing_idx, ing_expected>>
       ELSE /\ ing_pc' = "check"
            /\ ing_expected' = ing_records[1].line_no
            /\ ing_idx' = 1
            /\ UNCHANGED ing_error
    /\ UNCHANGED <<ing_file, ing_records, ing_seen>>
    /\ UNCHANGED notIngestVars

\* the turn of the second loop without the comparison with expected
IngestCheckRecordNoGapCheck ==
    /\ ing_pc = "check"
    /\ ing_idx <= Len(ing_records)
    /\ IF ing_records[ing_idx].line_no \in ing_seen
       THEN /\ ing_pc' = "raised"
            /\ ing_error' = [kind |-> "DuplicateLineNumber", expected |-> 0,
                             got |-> ing_records[ing_idx].line_no]
            /\ UNCHANGED <<ing_idx, ing_expected, ing_seen>>
       ELSE /\ ing_seen' = ing_seen \cup {ing_records[ing_idx].line_no}
            /\ ing_expected' = ing_expected + 1
            /\ ing_idx' = ing_idx + 1
            /\ UNCHANGED <<ing_pc, ing_error>>
    /\ UNCHANGED <<ing_file, ing_records>>
    /\ UNCHANGED notIngestVars

\* the turn of the second loop with the two tests in the other order
IngestCheckRecordGapFirst ==
    /\ ing_pc = "check"
    /\ ing_idx <= Len(ing_records)
    /\ IF ing_records[ing_idx].line_no # ing_expected
       THEN /\ ing_pc' = "raised"
            /\ ing_error' = [kind |-> "NonContiguousNumbering",
                             expected |-> ing_expected,
                             got |-> ing_records[ing_idx].line_no]
            /\ UNCHANGED <<ing_idx, ing_expected, ing_seen>>
       ELSE IF ing_records[ing_idx].line_no \in ing_seen
       THEN /\ ing_pc' = "raised"
            /\ ing_error' = [kind |-> "DuplicateLineNumber", expected |-> 0,
                             got |-> ing_records[ing_idx].line_no]
            /\ UNCHANGED <<ing_idx, ing_expected, ing_seen>>
       ELSE /\ ing_seen' = ing_seen \cup {ing_records[ing_idx].line_no}
            /\ ing_expected' = ing_expected + 1
            /\ ing_idx' = ing_idx + 1
            /\ UNCHANGED <<ing_pc, ing_error>>
    /\ UNCHANGED <<ing_file, ing_records>>
    /\ UNCHANGED notIngestVars

\* ingest.py 67-77: one turn of the loop over the records
IngestCheckRecord ==
    /\ ing_pc = "check"
    /\ ing_idx <= Len(ing_records)
    /\ IF ing_records[ing_idx].line_no \in ing_seen
       THEN /\ ing_pc' = "raised"
            /\ ing_error' = [kind |-> "DuplicateLineNumber", expected |-> 0,
                             got |-> ing_records[ing_idx].line_no]
            /\ UNCHANGED <<ing_idx, ing_expected, ing_seen>>
       ELSE IF ing_records[ing_idx].line_no # ing_expected
       THEN /\ ing_pc' = "raised"
            /\ ing_error' = [kind |-> "NonContiguousNumbering",
                             expected |-> ing_expected,
                             got |-> ing_records[ing_idx].line_no]
            /\ ing_seen' = ing_seen \cup {ing_records[ing_idx].line_no}
            /\ UNCHANGED <<ing_idx, ing_expected>>
       ELSE /\ ing_seen' = ing_seen \cup {ing_records[ing_idx].line_no}
            /\ ing_expected' = ing_expected + 1
            /\ ing_idx' = ing_idx + 1
            /\ UNCHANGED <<ing_pc, ing_error>>
    /\ UNCHANGED <<ing_file, ing_records>>
    /\ UNCHANGED notIngestVars

\* ingest.py 79
IngestReturn ==
    /\ ing_pc = "check"
    /\ ing_idx > Len(ing_records)
    /\ ing_pc' = "returned"
    /\ UNCHANGED <<ing_file, ing_idx, ing_records, ing_expected, ing_seen, ing_error>>
    /\ UNCHANGED notIngestVars

(***************************************************************************)
(* pipeline/validate_citations.py                                          *)
(***************************************************************************)
\* validate_citations.py 12-19: the ids of the chunks are pairwise distinct
ChunkIdsDistinct(chunks) ==
    \A a, b \in DOMAIN chunks : a # b => chunks[a].chunk_id # chunks[b].chunk_id

\* validate_citations.py 12-19: idx, for a chunk list without duplicate ids
build_chunk_index(chunks) ==
    [cid \in {chunks[k].chunk_id : k \in DOMAIN chunks} |->
        chunks[CHOOSE k \in DOMAIN chunks : chunks[k].chunk_id = cid]]

\* traceability.py 146: key = (cit.chunk_id, cit.line_start, cit.line_end)
citation_key_raw(c) == <<c.chunk_id, c.line_start, c.line_end>>

\* validate_citation_bounds without the test of line 40
validate_citation_bounds_no_order(chunk_index, citation) ==
    IF citation.chunk_id \notin DOMAIN chunk_index THEN "UnknownChunk"
    ELSE IF citation.line_start.k # "int" \/ citation.line_end.k # "int" THEN "NotInt"
    ELSE IF \/ citation.line_start.v < chunk_index[citation.chunk_id].line_start
            \/ citation.line_end.v > chunk_index[citation.chunk_id].line_end
         THEN "OutOfBounds"
    ELSE "ok"

\* validate_citations.py 22-46: "ok" when it returns, else which
\* CitationValidationError it raises
validate_citation_bounds(chunk_index, citation) ==
    IF citation.chunk_id \notin DOMAIN chunk_index THEN "UnknownChunk"
    ELSE IF citation.line_start.k # "int" \/ citation.line_end.k # "int" THEN "NotInt"
    ELSE IF citation.line_start.v > citation.line_end.v THEN "StartAfterEnd"
    ELSE IF \/ citation.line_start.v < chunk_index[citation.chunk_id].line_start
            \/ citation.line_end.v > chunk_index[citation.chunk_id].line_end
         THEN "OutOfBounds"
    ELSE "ok"

NoCitationError == [kind |-> "none", at |-> 0]

\* traceability.validate_citations_list was not called
NotCalled == [called |-> FALSE, ok |-> FALSE, parsed |-> <<>>]

\* traceability.py 134-138: Citation(chunk_id=..., line_start=..., line_end=...)
ParsedCitation(c) ==
    [chunk_id |-> c.chunk_id, line_start |-> c.line_start.v, line_end |-> c.line_end.v]

\* traceability.py 129-152: the key and type checks of one entry, the
\* duplicate check against the entries before it, and validate_citation
CitationEntryPasses(index, citations, k) ==
    /\ citations[k].chunk_id # <<>>
    /\ citations[k].line_start.k = "int"
    /\ citations[k].line_end.k = "int"
    /\ \A j \in 1..(k - 1) : citation_key_raw(citations[j]) # citation_key_raw(citations[k])
    /\ ValidateCitation(index, ParsedCitation(citations[k]))

\* traceability.py 120-154: the parsed citations when every entry passes,
\* TraceabilityError otherwise
validate_citations_list(index, citations) ==
    IF \A k \in DOMAIN citations : CitationEntryPasses(index, citations, k)
    THEN [called |-> TRUE, ok |-> TRUE,
          parsed |-> AsSeq([k \in DOMAIN citations |-> ParsedCitation(citations[k])])]
    ELSE [called |-> TRUE, ok |-> FALSE, parsed |-> <<>>]

MaxCitations == 3

\* chunk dictionaries: lines 10..15, lines 16..18, and a second c0001
ChunkDictPool ==
    {[chunk_id |-> <<"c", "0", "0", "0", "1">>, line_start |-> 10, line_end |-> 15],
     [chunk_id |-> <<"c", "0", "0", "0", "2">>, line_start |-> 16, line_end |-> 18],
     [chunk_id |-> <<"c", "0", "0", "0", "1">>, line_start |-> 1, line_end |-> 9]}

\* citation dictionaries: within c0001, overhanging it on either side,
\* inverted, of an unknown chunk, without chunk_id (no id is the empty
\* sequence), with a line field that is no int or is missing, and within c0002
CitationDictPool ==
    {RawCite(<<"c", "0", "0", "0", "1">>, IntVal(10), IntVal(12)),
     RawCite(<<"c", "0", "0", "0", "1">>, IntVal(9), IntVal(12)),
     RawCite(<<"c", "0", "0", "0", "1">>, IntVal(10), IntVal(16)),
     RawCite(<<"c", "0", "0", "0", "1">>, IntVal(14), IntVal(11)),
     RawCite(<<"c", "0", "0", "0", "9">>, IntVal(10), IntVal(12)),
     RawCite(<<>>, IntVal(10), IntVal(12)),
     RawCite(<<"c", "0", "0", "0", "1">>, BadVal, IntVal(12)),
     RawCite(<<"c", "0", "0", "0", "1">>, IntVal(10), AbsentVal),
     RawCite(<<"c", "0", "0", "0", "2">>, IntVal(16), IntVal(16))}

ValidateCitationsIdle ==
    /\ vc_pc = "idle"
    /\ vc_chunks = <<>>
    /\ vc_citations = <<>>
    /\ vc_index = <<>>
    /\ vc_i = 0
    /\ vc_error = NoCitationError
    /\ vc_trace = NotCalled

\* validate_citations.py 49-52
ValidateCitationsInit ==
    /\ vc_pc = "index"
    /\ vc_chunks \in SeqsUpTo(ChunkDictPool, 2)
    /\ vc_citations \in SeqsUpTo(CitationDictPool, MaxCitations)
    /\ vc_index = <<>>
    /\ vc_i = 0
    /\ vc_error = NoCitationError
    /\ vc_trace = NotCalled

\* validate_citations.py 53 (12-19)
ValidateCitationsBuildIndex ==
    /\ vc_pc = "index"
    /\ IF ChunkIdsDistinct(vc_chunks)
       THEN /\ vc_index' = build_chunk_index(vc_chunks)
            /\ vc_i' = 1
            /\ vc_pc' = "loop"
            /\ UNCHANGED vc_error
       ELSE /\ vc_pc' = "raised"
            /\ vc_error' = [kind |-> "DuplicateChunkId", at |-> 0]
            /\ UNCHANGED <<vc_index, vc_i>>
    /\ UNCHANGED <<vc_chunks, vc_citations, vc_trace>>
    /\ UNCHANGED notVcitVars

\* validate_citations.py 54-55: one turn of the loop
ValidateCitationsStep ==
    /\ vc_pc = "loop"
    /\ vc_i <= Len(vc_citations)
    /\ \E r \in {validate_citation_bounds(vc_index, vc_citations[vc_i])} :
          IF r = "ok"
          THEN /\ vc_i' = vc_i + 1
               /\ UNCHANGED <<vc_pc, vc_error>>
          ELSE /\ vc_pc' = "raised"
               /\ vc_error' = [kind |-> r, at |-> vc_i]
               /\ UNCHANGED vc_i
    /\ UNCHANGED <<vc_chunks, vc_citations, vc_index, vc_trace>>
    /\ UNCHANGED notVcitVars

\* validate_citations.py 54-55: the loop is over
ValidateCitationsReturn ==
    /\ vc_pc = "loop"
    /\ vc_i > Len(vc_citations)
    /\ vc_pc' = "returned"
    /\ UNCHANGED <<vc_chunks, vc_citations, vc_index, vc_i, vc_error, vc_trace>>
    /\ UNCHANGED notVcitVars

\* the Traceability Index is built from the same chunks artifact, which
\* build_trace_index (traceability.py 38, 52-63) takes when it is not empty
\* and its ids are distinct, and traceability.validate_citations_list is
\* given the same citations
ValidateCitationsListCall ==
    /\ vc_pc \in {"returned", "raised"}
    /\ vc_trace = NotCalled
    /\ vc_chunks # <<>>
    /\ ChunkIdsDistinct(vc_chunks)
    /\ vc_trace' = validate_citations_list(BuildTraceIndex(vc_chunks), vc_citations)
    /\ UNCHANGED <<vc_pc, vc_chunks, vc_citations, vc_index, vc_i, vc_error>>
    /\ UNCHANGED notVcitVars

(***************************************************************************)
(* pipeline/extract.py: recover_truncated_chunk_json                       *)
(***************************************************************************)
\* extract.py 203-204: the prefix the text must start with
ExtractedFactsPrefix ==
    <<"{", "\"", "e", "x", "t", "r", "a", "c", "t", "e", "d", "_", "f", "a",
      "c", "t", "s", "\"">>

\* str.startswith
StartsWith(s, p) == Len(s) >= Len(p) /\ SubSeq(s, 1, Len(p)) = p

\* extract.py 206-210: the state before the first character; last_safe_end
\* is the position of a character, 0 for None
ScanStart ==
    [in_str |-> FALSE, esc |-> FALSE, obj_depth |-> 0, arr_depth |-> 0,
     last_safe_end |-> 0]

\* extract.py 212-236: the loop body for character ch at position i
ScanChar(st, ch, i) ==
    IF st.in_str
    THEN IF st.esc THEN [st EXCEPT !.esc = FALSE]
         ELSE IF ch = "\\" THEN [st EXCEPT !.esc = TRUE]
         ELSE IF ch = "\"" THEN [st EXCEPT !.in_str = FALSE]
         ELSE st
    ELSE IF ch = "\"" THEN [st EXCEPT !.in_str = TRUE]
    ELSE IF ch = "{" THEN [st EXCEPT !.obj_depth = st.obj_depth + 1]
    ELSE IF ch = "}"
         THEN [st EXCEPT !.obj_depth = Max(0, st.obj_depth - 1),
                         !.last_safe_end =
                             IF Max(0, st.obj_depth - 1) = 1 /\ st.arr_depth = 1
                             THEN i ELSE st.last_safe_end]
    ELSE IF ch = "[" THEN [st EXCEPT !.arr_depth = st.arr_depth + 1]
    ELSE IF ch = "]" THEN [st EXCEPT !.arr_depth = Max(0, st.arr_depth - 1)]
    ELSE st

NoRecovery == [found |-> FALSE, text |-> <<>>]

\* extract.py 241-246: the text cut after last_safe_end, without a trailing
\* comma, closed by "]}"
CloseAfter(cut) ==
    IF cut # <<>> /\ cut[Len(cut)] = ","
    THEN RStrip(SubSeq(cut, 1, Len(cut) - 1)) \o <<"]", "}">>
    ELSE cut \o <<"]", "}">>

\* extract.py 238-246, for the state the loop ended in
RecoveredFrom(s, st) ==
    IF st.last_safe_end = 0 THEN NoRecovery
    ELSE [found |-> TRUE, text |-> CloseAfter(RStrip(SubSeq(s, 1, st.last_safe_end)))]

\* ---- the texts the model may have written so far ----
MaxDocFacts == 2

\* two fact objects: one whose string value holds a brace, a bracket and an
\* escaped quote and whose citations array holds an object, one with a
\* nested object that holds an array
FactTexts ==
    {
     <<"{", "\"", "s", "\"", ":", "\"", "}", "]", "\\", "\"", "\"", ",",
       "\"", "c", "\"", ":", "[", "{", "\"", "k", "\"", ":", "1", "}", "]",
       "}">>,
     <<"{", "\"", "o", "\"", ":", "{", "\"", "k", "\"", ":", "[", "2", "]",
       "}", "}">>}

\* the document up to its array: as asked for, with white space, and with
\* another key
DocHeads ==
    {<<"{", "\"", "e", "x", "t", "r", "a", "c", "t", "e", "d", "_", "f", "a",
       "c", "t", "s", "\"", ":">>,
     <<" ", "{", "\"", "e", "x", "t", "r", "a", "c", "t", "e", "d", "_", "f",
       "a", "c", "t", "s", "\"", ":", " ">>,
     <<"{", "\"", "f", "a", "c", "t", "s", "\"", ":">>}

\* the document after its array: closed at once, or after a second key
\* whose value is an array of objects
DocTails ==
    {<<"}">>,
     <<",", "\"", "w", "\"", ":", "[", "{", "\"", "k", "\"", ":", "1", "}",
       "]", "}">>}

RECURSIVE JoinWithComma(_)
JoinWithComma(parts) ==
    IF parts = <<>> THEN <<>>
    ELSE IF Len(parts) = 1 THEN parts[1]
    ELSE parts[1] \o <<",">> \o JoinWithComma(Tail(parts))

\* the text of a document
DocText(doc) == doc.head \o <<"[">> \o JoinWithComma(doc.facts) \o <<"]">> \o doc.tail

RecoverIdle ==
    /\ rc_pc = "idle"
    /\ rc_doc = [head |-> <<>>, facts |-> <<>>, tail |-> <<>>]
    /\ rc_text = <<>>
    /\ rc_s = <<>>
    /\ rc_i = 0
    /\ rc_st = ScanStart
    /\ rc_result = NoRecovery

\* the argument text: a document cut anywhere
RecoverInit ==
    /\ rc_pc = "call"
    /\ rc_doc \in [head : DocHeads, facts : SeqsUpTo(FactTexts, MaxDocFacts), tail : DocTails]
    /\ \E n \in 0..Len(DocText(rc_doc)) : rc_text = SubSeq(DocText(rc_doc), 1, n)
    /\ rc_s = <<>>
    /\ rc_i = 0
    /\ rc_st = ScanStart
    /\ rc_result = NoRecovery

\* extract.py 202-204: strip the text, return None unless it starts with
\* the prefix
RecoverStart ==
    /\ rc_pc = "call"
    /\ rc_s' = Strip(rc_text)
    /\ rc_i' = 1
    /\ rc_pc' = IF StartsWith(Strip(rc_text), ExtractedFactsPrefix) THEN "scan" ELSE "returned"
    /\ UNCHANGED <<rc_doc, rc_text, rc_st, rc_result>>
    /\ UNCHANGED notRecoverVars

\* extract.py 212-236: one turn of the loop
RecoverScanChar ==
    /\ rc_pc = "scan"
    /\ rc_i <= Len(rc_s)
    /\ rc_st' = ScanChar(rc_st, rc_s[rc_i], rc_i)
    /\ rc_i' = rc_i + 1
    /\ UNCHANGED <<rc_pc, rc_doc, rc_text, rc_s, rc_result>>
    /\ UNCHANGED notRecoverVars

\* extract.py 238-246: after the loop
RecoverReturn ==
    /\ rc_pc = "scan"
    /\ rc_i > Len(rc_s)
    /\ rc_result' = RecoveredFrom(rc_s, rc_st)
    /\ rc_pc' = "returned"
    /\ UNCHANGED <<rc_doc, rc_text, rc_s, rc_i, rc_st>>
    /\ UNCHANGED notRecoverVars

(***************************************************************************)
(* pipeline/validate_workflow.py: validate_workflow_graph                  *)
(***************************************************************************)
\* validate_workflow.py 15: node_ids
NodeIds(w) == AsSeq([k \in DOMAIN w.nodes |-> w.nodes[k].node_id])

\* validate_workflow.py 16: len(node_ids) != len(set(node_ids))
HasDuplicateIds(w) == Len(w.nodes) # Cardinality(Range(NodeIds(w)))

\* validate_workflow.py 19: node_map[id], for distinct node ids
NodeById(w, id) == w.nodes[CHOOSE k \in DOMAIN w.nodes : w.nodes[k].node_id = id]

IsDecision(n) == n.node_type = "decision"

\* validate_workflow.py 25-30: some decision node has an edge to no node
HasMissingEdge(w) ==
    \E k \in DOMAIN w.nodes :
        /\ IsDecision(w.nodes[k])
        /\ \/ w.nodes[k].true_next \notin Range(NodeIds(w))
           \/ w.nodes[k].false_next \notin Range(NodeIds(w))

\* one turn of the loop that pushes the true edge alone
VisitNextTrueOnly(w, st) ==
    LET top == st.stack[Len(st.stack)]
        rest == SubSeq(st.stack, 1, Len(st.stack) - 1)
    IN IF top \in st.reachable THEN [st EXCEPT !.stack = rest]
       ELSE [stack |-> IF IsDecision(NodeById(w, top))
                       THEN Append(rest, NodeById(w, top).true_next)
                       ELSE rest,
             reachable |-> st.reachable \cup {top}]

\* validate_workflow.py 35-43: one turn of the while loop
VisitNext(w, st) ==
    LET top == st.stack[Len(st.stack)]
        rest == SubSeq(st.stack, 1, Len(st.stack) - 1)
    IN IF top \in st.reachable THEN [st EXCEPT !.stack = rest]
       ELSE [stack |-> IF IsDecision(NodeById(w, top))
                       THEN rest \o <<NodeById(w, top).true_next, NodeById(w, top).false_next>>
                       ELSE rest,
             reachable |-> st.reachable \cup {top}]

RECURSIVE Walk(_, _)
\* validate_workflow.py 33-43: the while loop, to its end
Walk(w, st) == IF st.stack = <<>> THEN st.reachable ELSE Walk(w, VisitNext(w, st))

\* validate_workflow.py 45-47: sorted(set(node_map.keys()) - reachable)
SortedUnreachable(w, reachable) ==
    LET un == SelectSeq(NodeIds(w), LAMBDA id : id \notin reachable)
    IN SortedByKey(un, AsSeq([k \in DOMAIN un |-> <<StrKey(un[k])>>]))

NoWorkflowError == [kind |-> "none", nodes |-> <<>>]

WorkflowError(kind, ids) == [kind |-> kind, nodes |-> ids]

\* validate_workflow.py 45-47, for the set the loop ended with
UnreachableError(w, reachable) ==
    IF SortedUnreachable(w, reachable) # <<>>
    THEN WorkflowError("UnreachableNodes", SortedUnreachable(w, reachable))
    ELSE NoWorkflowError

\* validate_workflow.py 13-47: the error raised, NoWorkflowError when it
\* returns
validate_workflow_graph(w) ==
    IF HasDuplicateIds(w) THEN WorkflowError("DuplicateNodeId", <<>>)
    ELSE IF w.start_node_id \notin Range(NodeIds(w)) THEN WorkflowError("StartNotFound", <<>>)
    ELSE IF HasMissingEdge(w) THEN WorkflowError("MissingEdge", <<>>)
    ELSE UnreachableError(w, Walk(w, [stack |-> <<w.start_node_id>>, reachable |-> {}]))

\* ---- the workflows given to validate_workflow_graph ----
MaxWorkflowNodes == 3

\* node ids
D1 == NodeId("d", 1)

D2 == NodeId("d", 2)

E1 == NodeId("e", 1)

E2 == NodeId("e", 2)

A1 == NodeId("a", 1)

\* nodes: decisions to existing and to missing nodes, onto themselves and
\* back to an earlier decision, an action and two ends
WorkflowNodePool ==
    {DecisionNode(D1, D2, E1, <<>>), DecisionNode(D1, D1, E1, <<>>),
     DecisionNode(D2, D1, E1, <<>>), DecisionNode(D2, E1, E2, <<>>),
     ActionNode(A1, <<>>), EndNode(E1), EndNode(E2)}

ValidateWorkflowIdle ==
    /\ vw_pc = "idle"
    /\ vw_workflow = NoWorkflow
    /\ vw_stack = <<>>
    /\ vw_reachable = {}
    /\ vw_error = NoWorkflowError

\* schemas_workflow.py 72-83: nodes has at least one node, start_node_id is
\* any string
ValidateWorkflowInit ==
    /\ vw_pc = "ids"
    /\ \E nodes \in SeqsUpTo(WorkflowNodePool, MaxWorkflowNodes) \ {<<>>} :
       \E start \in {D1, D2, E1} :
          vw_workflow = [nodes |-> nodes, start_node_id |-> start]
    /\ vw_stack = <<>>
    /\ vw_reachable = {}
    /\ vw_error = NoWorkflowError

\* validate_workflow.py 14-17
ValidateWorkflowIds ==
    /\ vw_pc = "ids"
    /\ IF HasDuplicateIds(vw_workflow)
       THEN vw_pc' = "raised" /\ vw_error' = WorkflowError("DuplicateNodeId", <<>>)
       ELSE vw_pc' = "start" /\ UNCHANGED vw_error
    /\ UNCHANGED <<vw_workflow, vw_stack, vw_reachable>>
    /\ UNCHANGED notVwfVars

\* validate_workflow.py 19-22
ValidateWorkflowStart ==
    /\ vw_pc = "start"
    /\ IF vw_workflow.start_node_id \notin Range(NodeIds(vw_workflow))
       THEN vw_pc' = "raised" /\ vw_error' = WorkflowError("StartNotFound", <<>>)
       ELSE vw_pc' = "edges" /\ UNCHANGED vw_error
    /\ UNCHANGED <<vw_workflow, vw_stack, vw_reachable>>
    /\ UNCHANGED notVwfVars

\* validate_workflow.py 24-34
ValidateWorkflowEdges ==
    /\ vw_pc = "edges"
    /\ IF HasMissingEdge(vw_workflow)
       THEN /\ vw_pc' = "raised" /\ vw_error' = WorkflowError("MissingEdge", <<>>)
            /\ UNCHANGED vw_stack
       ELSE /\ vw_pc' = "walk" /\ UNCHANGED vw_error
            /\ vw_stack' = <<vw_workflow.start_node_id>>
    /\ UNCHANGED <<vw_workflow, vw_reachable>>
    /\ UNCHANGED notVwfVars

\* validate_workflow.py 35-43: while stack
ValidateWorkflowVisit ==
    /\ vw_pc = "walk"
    /\ vw_stack # <<>>
    /\ \E st \in {VisitNext(vw_workflow, [stack |-> vw_stack, reachable |-> vw_reachable])} :
          /\ vw_stack' = st.stack
          /\ vw_reachable' = st.reachable
    /\ UNCHANGED <<vw_pc, vw_workflow, vw_error>>
    /\ UNCHANGED notVwfVars

\* validate_workflow.py 45-47
ValidateWorkflowReturn ==
    /\ vw_pc = "walk"
    /\ vw_stack = <<>>
    /\ vw_error' = UnreachableError(vw_workflow, vw_reachable)
    /\ vw_pc' = IF vw_error'.kind = "none" THEN "returned" ELSE "raised"
    /\ UNCHANGED <<vw_workflow, vw_stack, vw_reachable>>
    /\ UNCHANGED notVwfVars

(***************************************************************************)
(* pipeline/run_all.py: run_all                                            *)
(***************************************************************************)
\* run_all.py 145-155: steps; checked is FALSE for expected_outputs = None
PipelineSteps ==
    <<[name |-> "step1", checked |-> TRUE, outputs |-> {"step1_lines", "step1_chunks"}],
      [name |-> "step2", checked |-> FALSE, outputs |-> {}],
      [name |-> "step3", checked |-> TRUE,
       outputs |-> {"step3_citation_index", "step3_citation_smoketest", "step3_snippets_md"}],
      [name |-> "step4", checked |-> TRUE, outputs |-> {"step4_sanity"}],
      [name |-> "step5", checked |-> TRUE, outputs |-> {"step5_extraction"}],
      [name |-> "step6", checked |-> TRUE, outputs |-> {"step6_clean"}],
      [name |-> "step7", checked |-> TRUE, outputs |-> {"step7_workflow"}],
      [name |-> "step8", checked |-> TRUE, outputs |-> {"step8_audit_md"}],
      [name |-> "step9", checked |-> TRUE, outputs |-> {"step9_human_md"}]>>

\* run_all.py 98-108: the artifacts of PipelinePaths that steps write
Artifacts == UNION {PipelineSteps[k].outputs : k \in DOMAIN PipelineSteps}

\* p.exists()
Exists(files, p) == p \in files

SkipsStepWithoutResume(resume, step, files) ==
    step.checked /\ \A p \in step.outputs : Exists(files, p)

\* run_all.py 162: resume and expected_outputs is not None and
\* all(p.exists() for p in expected_outputs)
SkipsStep(resume, step, files) ==
    resume /\ step.checked /\ \A p \in step.outputs : Exists(files, p)

\* run_all.py 169-172: missing is not empty
MissingOutputs(step, files) ==
    step.checked /\ \E p \in step.outputs : ~Exists(files, p)

\* the calls of run_all the model follows
MaxRuns == 2

NoManifests == [hashes |-> 0, metadata |-> 0]

RunAllIdle ==
    /\ ra_pc = "idle"
    /\ ra_resume = FALSE
    /\ ra_run = 0
    /\ ra_files = {}
    /\ ra_step = 0
    /\ ra_ran = <<>>
    /\ ra_skipped = <<>>
    /\ ra_deleted = [r \in 1..MaxRuns |-> {}]
    /\ ra_outcomes = <<>>
    /\ ra_guideline = TRUE
    /\ ra_called = <<>>
    /\ ra_manifests = NoManifests

\* an empty outputs directory; data/guideline.txt is in place or not
RunAllInit ==
    /\ ra_pc = "idle"
    /\ ra_resume = FALSE
    /\ ra_run = 0
    /\ ra_files = {}
    /\ ra_step = 0
    /\ ra_ran = <<>>
    /\ ra_skipped = <<>>
    /\ ra_deleted = [r \in 1..MaxRuns |-> {}]
    /\ ra_outcomes = <<>>
    /\ ra_guideline \in BOOLEAN
    /\ ra_called = <<>>
    /\ ra_manifests = NoManifests

\* run_all.py 115-124: assert_prereqs raises FileNotFoundError
RunAllMissingGuideline ==
    /\ ra_pc \in {"idle", "done", "raised"}
    /\ ra_run < MaxRuns
    /\ ~ra_guideline
    /\ ra_resume' \in BOOLEAN
    /\ ra_run' = ra_run + 1
    /\ ra_step' = 0
    /\ ra_ran' = <<>>
    /\ ra_skipped' = <<>>
    /\ ra_called' = <<>>
    /\ ra_pc' = "raised"
    /\ ra_outcomes' = Append(ra_outcomes, "raised")
    /\ UNCHANGED <<ra_files, ra_deleted, ra_guideline, ra_manifests>>
    /\ UNCHANGED notRunAllVars

\* run_all.py 122-158: a call of run_all, with or without --resume
RunAllBegin ==
    /\ ra_pc \in {"idle", "done", "raised"}
    /\ ra_run < MaxRuns
    /\ ra_guideline
    /\ ra_resume' \in BOOLEAN
    /\ ra_run' = ra_run + 1
    /\ ra_step' = 1
    /\ ra_ran' = <<>>
    /\ ra_skipped' = <<>>
    /\ ra_called' = <<>>
    /\ ra_pc' = "loop"
    /\ UNCHANGED <<ra_files, ra_deleted, ra_outcomes, ra_guideline, ra_manifests>>
    /\ UNCHANGED notRunAllVars

\* run_all.py 160-164: the step is skipped
RunAllSkipStep ==
    /\ ra_pc = "loop"
    /\ ra_step <= Len(PipelineSteps)
    /\ SkipsStep(ra_resume, PipelineSteps[ra_step], ra_files)
    /\ ra_skipped' = Append(ra_skipped, PipelineSteps[ra_step].name)
    /\ ra_step' = ra_step + 1
    /\ UNCHANGED <<ra_pc, ra_resume, ra_run, ra_files, ra_ran, ra_deleted, ra_outcomes,
                   ra_guideline, ra_called, ra_manifests>>
    /\ UNCHANGED notRunAllVars

\* the step module is called and the step is recorded, whatever it wrote
RunAllCallStepUnchecked ==
    /\ ra_pc = "loop"
    /\ ra_step <= Len(PipelineSteps)
    /\ ~SkipsStep(ra_resume, PipelineSteps[ra_step], ra_files)
    /\ ra_called' = Append(ra_called, PipelineSteps[ra_step].name)
    /\ \E outcome \in {"written", "nothing", "raised"} :
          /\ ra_files' = IF outcome = "written"
                         THEN ra_files \cup PipelineSteps[ra_step].outputs
                         ELSE ra_files
          /\ IF outcome = "raised"
             THEN /\ ra_pc' = "raised"
                  /\ ra_outcomes' = Append(ra_outcomes, "raised")
                  /\ UNCHANGED <<ra_ran, ra_step>>
             ELSE /\ ra_ran' = Append(ra_ran, PipelineSteps[ra_step].name)
                  /\ ra_step' = ra_step + 1
                  /\ UNCHANGED <<ra_pc, ra_outcomes>>
    /\ UNCHANGED <<ra_resume, ra_run, ra_skipped, ra_deleted, ra_guideline, ra_manifests>>
    /\ UNCHANGED notRunAllVars

\* run_all.py 166-174: the step module is called; it writes its outputs,
\* returns without writing, or raises
RunAllCallStep ==
    /\ ra_pc = "loop"
    /\ ra_step <= Len(PipelineSteps)
    /\ ~SkipsStep(ra_resume, PipelineSteps[ra_step], ra_files)
    /\ ra_called' = Append(ra_called, PipelineSteps[ra_step].name)
    /\ \E outcome \in {"written", "nothing", "raised"} :
          /\ ra_files' = IF outcome = "written"
                         THEN ra_files \cup PipelineSteps[ra_step].outputs
                         ELSE ra_files
          /\ IF outcome = "raised" \/ MissingOutputs(PipelineSteps[ra_step], ra_files')
             THEN /\ ra_pc' = "raised"
                  /\ ra_outcomes' = Append(ra_outcomes, "raised")
                  /\ UNCHANGED <<ra_ran, ra_step>>
             ELSE /\ ra_ran' = Append(ra_ran, PipelineSteps[ra_step].name)
                  /\ ra_step' = ra_step + 1
                  /\ UNCHANGED <<ra_pc, ra_outcomes>>
    /\ UNCHANGED <<ra_resume, ra_run, ra_skipped, ra_deleted, ra_guideline, ra_manifests>>
    /\ UNCHANGED notRunAllVars

\* run_all.py 176-212: the hash manifest is written if write_hashes, the
\* run metadata with success = True always; run_all returns
RunAllReturn ==
    /\ ra_pc = "loop"
    /\ ra_step > Len(PipelineSteps)
    /\ \E write_hashes \in BOOLEAN :
          ra_manifests' = [hashes |-> IF write_hashes THEN ra_run ELSE ra_manifests.hashes,
                           metadata |-> ra_run]
    /\ ra_pc' = "done"
    /\ ra_outcomes' = Append(ra_outcomes, "done")
    /\ UNCHANGED <<ra_resume, ra_run, ra_files, ra_step, ra_ran, ra_skipped, ra_deleted,
                   ra_guideline, ra_called>>
    /\ UNCHANGED notRunAllVars

\* between two calls the operator deletes one artifact
DeleteArtifact ==
    /\ ra_pc \in {"done", "raised"}
    /\ ra_run < MaxRuns
    /\ ra_deleted[ra_run] = {}
    /\ \E p \in Artifacts :
          /\ Exists(ra_files, p)
          /\ ra_files' = ra_files \ {p}
          /\ ra_deleted' = [ra_deleted EXCEPT ![ra_run] = @ \cup {p}]
    /\ UNCHANGED <<ra_pc, ra_resume, ra_run, ra_step, ra_ran, ra_skipped, ra_outcomes,
                   ra_guideline, ra_called, ra_manifests>>
    /\ UNCHANGED notRunAllVars

(***************************************************************************)
(* pipeline/render_clinical_summary.py: the walk of the decision chain     *)
(***************************************************************************)
\* render_clinical_summary.py 136: node_map.get(id), as the position of the
\* node in wf.nodes; of two nodes with one id the dict keeps the later one;
\* 0 for None
NodeMapGet(w, id) ==
    IF \E k \in DOMAIN w.nodes : w.nodes[k].node_id = id
    THEN CHOOSE k \in DOMAIN w.nodes :
            /\ w.nodes[k].node_id = id
            /\ \A j \in DOMAIN w.nodes : w.nodes[j].node_id = id => j <= k
    ELSE 0

\* render_clinical_summary.py 14-20
node_kind(n) == n.node_type

\* _pick_next_decision returns None
NoNextDecision == [found |-> FALSE, id |-> <<>>]

\* _pick_next_decision that looks at the first target alone
pick_next_decision_first_only(w, a, b) ==
    IF NodeMapGet(w, a) # 0 /\ node_kind(w.nodes[NodeMapGet(w, a)]) = "decision"
    THEN [found |-> TRUE, id |-> a]
    ELSE NoNextDecision

\* render_clinical_summary.py 85-92
pick_next_decision(w, a, b) ==
    IF NodeMapGet(w, a) # 0 /\ node_kind(w.nodes[NodeMapGet(w, a)]) = "decision"
    THEN [found |-> TRUE, id |-> a]
    ELSE IF NodeMapGet(w, b) # 0 /\ node_kind(w.nodes[NodeMapGet(w, b)]) = "decision"
    THEN [found |-> TRUE, id |-> b]
    ELSE NoNextDecision

\* render_clinical_summary.py 157: the condition of the while loop
WalkContinues(w, c, seen) ==
    /\ c # 0
    /\ node_kind(w.nodes[c]) = "decision"
    /\ w.nodes[c].node_id \notin seen

\* the nodes a workflow file can hold next to those of WorkflowNodePool: a
\* decision whose false_next is the empty string
RenderNodePool == WorkflowNodePool \cup {DecisionNode(D2, D1, <<>>, <<>>)}

\* what render_clinical_summary reads of a workflow for the walk
WalkView(w) == [nodes |-> w.nodes, start_node_id |-> w.start_node_id]

\* the workflows synthesize_workflow builds from no fact and from one fact
SynthesizedWorkflows == {WalkView(synthesize_workflow(fs)) : fs \in SeqsUpTo(FactPool, 1)}

RenderIdle ==
    /\ rs_pc = "idle"
    /\ rs_wf = NoWorkflow
    /\ rs_cur = 0
    /\ rs_seen = {}
    /\ decision_chain = <<>>

\* run_step9: wf is Workflow.model_validate of the workflow file, whose graph
\* is not validated again
RenderInit ==
    /\ rs_pc = "start"
    /\ \/ rs_wf \in SynthesizedWorkflows
       \/ \E nodes \in SeqsUpTo(RenderNodePool, MaxWorkflowNodes) \ {<<>>} :
          \E start \in {D1, D2, E1} :
             rs_wf = [nodes |-> nodes, start_node_id |-> start]
    /\ rs_cur = 0
    /\ rs_seen = {}
    /\ decision_chain = <<>>

\* render_clinical_summary.py 134-155
RenderStart ==
    /\ rs_pc = "start"
    /\ rs_cur' = NodeMapGet(rs_wf, rs_wf.start_node_id)
    /\ rs_pc' = "walk"
    /\ UNCHANGED <<rs_wf, rs_seen, decision_chain>>
    /\ UNCHANGED notRenderVars

\* render_clinical_summary.py 157-169: one turn of the while loop
RenderWalkVisit ==
    /\ rs_pc = "walk"
    /\ WalkContinues(rs_wf, rs_cur, rs_seen)
    /\ rs_seen' = rs_seen \cup {rs_wf.nodes[rs_cur].node_id}
    /\ decision_chain' = Append(decision_chain, rs_wf.nodes[rs_cur])
    /\ IF rs_wf.nodes[rs_cur].true_next = <<>> \/ rs_wf.nodes[rs_cur].false_next = <<>>
       THEN rs_pc' = "done" /\ UNCHANGED rs_cur
       ELSE \E nxt \in {pick_next_decision(rs_wf, rs_wf.nodes[rs_cur].true_next,
                                           rs_wf.nodes[rs_cur].false_next)} :
               IF ~nxt.found
               THEN rs_pc' = "done" /\ UNCHANGED rs_cur
               ELSE rs_cur' = NodeMapGet(rs_wf, nxt.id) /\ UNCHANGED rs_pc
    /\ UNCHANGED rs_wf
    /\ UNCHANGED notRenderVars

\* render_clinical_summary.py 157: the condition of the while loop is false
RenderWalkExit ==
    /\ rs_pc = "walk"
    /\ ~WalkContinues(rs_wf, rs_cur, rs_seen)
    /\ rs_pc' = "done"
    /\ UNCHANGED <<rs_wf, rs_cur, rs_seen, decision_chain>>
    /\ UNCHANGED notRenderVars

(***************************************************************************)
(* Specifications                                                          *)
(***************************************************************************)
\* chunk_lines on any records and configuration
InitChunk ==
    /\ ChunkInit
    /\ ExtractIdle /\ NormIdle /\ IngestIdle /\ ValidateCitationsIdle
    /\ RecoverIdle /\ ValidateWorkflowIdle /\ RunAllIdle /\ RenderIdle

NextChunk ==
    \/ ChunkLinesReject
    \/ ChunkLinesBegin
    \/ ChunkLinesStep
    \/ ChunkLinesEnd

SpecChunk == InitChunk /\ [][NextChunk]_vars

\* run_extraction over the chunks artifact
Init ==
    /\ InitRunExtraction
    /\ ChunkIdle /\ NormIdle /\ IngestIdle /\ ValidateCitationsIdle
    /\ RecoverIdle /\ ValidateWorkflowIdle /\ RunAllIdle /\ RenderIdle

Next ==
    \/ ExtractChunkCall
    \/ DecodeStep
    \/ DecodeLastAttempt
    \/ ExtractRetry
    \/ ExtractGiveUp
    \/ RunExtractionReturn

Spec == Init /\ [][Next]_vars

\* the steps of run_extraction are taken as long as one is possible
FairSpec == Spec /\ WF_vars(Next)

\* extract_chunk on one chunk, with every kind of citation the model can write
InitExtractChunk ==
    /\ InitExtractOneChunk
    /\ ChunkIdle /\ NormIdle /\ IngestIdle /\ ValidateCitationsIdle
    /\ RecoverIdle /\ ValidateWorkflowIdle /\ RunAllIdle /\ RenderIdle

SpecExtractChunk == InitExtractChunk /\ [][Next]_vars

\* normalize_and_canonicalize and synthesize_workflow on any ExtractionOutput
\* made of the fact pool
InitNormalize ==
    /\ NormInit
    /\ ChunkIdle /\ ExtractIdle /\ IngestIdle /\ ValidateCitationsIdle
    /\ RecoverIdle /\ ValidateWorkflowIdle /\ RunAllIdle /\ RenderIdle

NextNormalize ==
    \/ NormalizeFilter
    \/ NormalizeExactDedup
    \/ NormalizeFuzzyDedup
    \/ NormalizeTighten
    \/ NormalizeReId
    \/ SynthesizeWorkflow

SpecNormalize == InitNormalize /\ [][NextNormalize]_vars

\* parse_guideline_lines on any file made of the line pool
InitIngest ==
    /\ IngestInit
    /\ ChunkIdle /\ ExtractIdle /\ NormIdle /\ ValidateCitationsIdle
    /\ RecoverIdle /\ ValidateWorkflowIdle /\ RunAllIdle /\ RenderIdle

NextIngest ==
    \/ IngestReadLine
    \/ IngestCheckEmpty
    \/ IngestCheckRecord
    \/ IngestReturn

SpecIngest == InitIngest /\ [][NextIngest]_vars

\* validate_citations on any chunk list and citation list made of the pools
InitValidateCitations ==
    /\ ValidateCitationsInit
    /\ ChunkIdle /\ ExtractIdle /\ NormIdle /\ IngestIdle
    /\ RecoverIdle /\ ValidateWorkflowIdle /\ RunAllIdle /\ RenderIdle

NextValidateCitations ==
    \/ ValidateCitationsBuildIndex
    \/ ValidateCitationsStep
    \/ ValidateCitationsReturn
    \/ ValidateCitationsListCall

SpecValidateCitations == InitValidateCitations /\ [][NextValidateCitations]_vars

\* recover_truncated_chunk_json on every cut of every document
InitRecover ==
    /\ RecoverInit
    /\ ChunkIdle /\ ExtractIdle /\ NormIdle /\ IngestIdle
    /\ ValidateCitationsIdle /\ ValidateWorkflowIdle /\ RunAllIdle /\ RenderIdle

NextRecover == RecoverStart \/ RecoverScanChar \/ RecoverReturn

SpecRecover == InitRecover /\ [][NextRecover]_vars

\* validate_workflow_graph on every workflow made of the node pool
InitValidateWorkflow ==
    /\ ValidateWorkflowInit
    /\ ChunkIdle /\ ExtractIdle /\ NormIdle /\ IngestIdle
    /\ ValidateCitationsIdle /\ RecoverIdle /\ RunAllIdle /\ RenderIdle

NextValidateWorkflow ==
    \/ ValidateWorkflowIds
    \/ ValidateWorkflowStart
    \/ ValidateWorkflowEdges
    \/ ValidateWorkflowVisit
    \/ ValidateWorkflowReturn

SpecValidateWorkflow == InitValidateWorkflow /\ [][NextValidateWorkflow]_vars

\* calls of run_all on one outputs directory, with deletions in between
InitRunAll ==
    /\ RunAllInit
    /\ ChunkIdle /\ ExtractIdle /\ NormIdle /\ IngestIdle
    /\ ValidateCitationsIdle /\ RecoverIdle /\ ValidateWorkflowIdle /\ RenderIdle

NextRunAll ==
    \/ RunAllMissingGuideline
    \/ RunAllBegin
    \/ RunAllSkipStep
    \/ RunAllCallStep
    \/ RunAllReturn
    \/ DeleteArtifact

SpecRunAll == InitRunAll /\ [][NextRunAll]_vars

\* the decision-chain walk of render_clinical_summary on synthesized
\* workflows and on every workflow made of the node pool
InitRender ==
    /\ RenderInit
    /\ ChunkIdle /\ ExtractIdle /\ NormIdle /\ IngestIdle
    /\ ValidateCitationsIdle /\ RecoverIdle /\ ValidateWorkflowIdle /\ RunAllIdle

NextRender ==
    \/ RenderStart
    \/ RenderWalkVisit
    \/ RenderWalkExit

SpecRender == InitRender /\ [][NextRender]_vars

(***************************************************************************)
(* Claims about extract_chunk and run_extraction                           *)
(***************************************************************************)
\* the raw citations of the facts in the accumulated text
RawCitationsOf(acc) ==
    UNION {Range(acc.facts[k].citations) : k \in 1..Len(acc.facts)}

\* C2: every fact extract_chunk returns for a chunk has at least one citation,
\* and each of its citations names that chunk and lies within the chunk's
\* bounds with line_start <= line_end, whatever the model wrote.
C2_ReturnedCitationsInChunk ==
    \A k \in 1..Len(chunk_results) :
        \A i \in 1..Len(chunk_results[k]) :
            LET f == chunk_results[k][i]
                ch == ex_chunks[k]
            IN /\ Len(f.citations) >= 1
               /\ \A j \in 1..Len(f.citations) :
                     /\ f.citations[j].chunk_id = ch.chunk_id
                     /\ ch.line_start <= f.citations[j].line_start
                     /\ f.citations[j].line_start <= f.citations[j].line_end
                     /\ f.citations[j].line_end <= ch.line_end

\* C2 witness: extract_chunk returned a fact whose citation, as the model wrote
\* it, named another chunk and began before the chunk's first line
C2_Witness ==
    /\ Len(chunk_results) = 1
    /\ chunk_results[1] # <<>>
    /\ \E c \in RawCitationsOf(accumulated) :
          /\ c.chunk_id # ex_chunks[1].chunk_id
          /\ c.line_start.k = "int"
          /\ c.line_start.v < ex_chunks[1].line_start

\* C4 (as claimed): generation is requested in increments of step_tokens and
\* the tokens requested in one attempt never exceed hard_cap_tokens.
C4_RequestedWithinCap ==
    /\ \A k \in 1..Len(requests) : requests[k] = step_tokens
    /\ SeqSum(requests) <= hard_cap_tokens

\* C5 (as claimed): extract_chunk returns at most three facts for one chunk.
C5_AtMostThreeFacts ==
    \A k \in 1..Len(chunk_results) : Len(chunk_results[k]) <= 3

\* the number of generate_text calls that fit before the cap is reached
MaxRequestsPerAttempt == (hard_cap_tokens + step_tokens - 1) \div step_tokens

ExtractionEnded == ex_pc \in {"returned", "raised"}

\* C6: extraction always ends: at most max_attempts attempts per chunk, a bounded
\* number of generation requests per attempt, a failed attempt that is not the
\* last is followed by a new attempt from the empty accumulation, the last
\* failed attempt by the failure, and the run ends with an output or a failure.
C6_ExtractionTerminates ==
    /\ [](attempt <= max_attempts /\ Len(requests) <= MaxRequestsPerAttempt)
    /\ [][(ex_pc = "failed" /\ attempt < max_attempts) =>
            (/\ ex_pc' = "decode"
             /\ attempt' = attempt + 1
             /\ accumulated' = EmptyAccumulation
             /\ generated' = 0)]_vars
    /\ [][(ex_pc = "failed" /\ attempt >= max_attempts) => ex_pc' = "raised"]_vars
    /\ [](ex_pc = "raised" => (attempt = max_attempts /\ ~out.returned))
    /\ <>ExtractionEnded

\* C6 witness: the third attempt used every generation request and failed
C6_Witness ==
    /\ ex_pc = "raised"
    /\ attempt = max_attempts
    /\ Len(requests) = MaxRequestsPerAttempt

\* the facts of a sequence without their ids
WithoutIds(fs) ==
    [i \in 1..Len(fs) |-> [fact_type |-> fs[i].fact_type, citations |-> fs[i].citations]]

\* C7: run_extraction is all-or-nothing: when the extraction of a chunk fails for
\* good, no later chunk is passed to extract_chunk and no output is returned; an
\* output is returned only when every chunk of the list produced a result, and
\* it holds exactly the facts of those results.
C7_AllOrNothing ==
    /\ ex_pc = "raised" =>
          /\ ~out.returned
          /\ Len(visited) = chunk_idx
          /\ Len(chunk_results) = chunk_idx - 1
    /\ out.returned =>
          /\ ex_pc = "returned"
          /\ ex_error = "none"
          /\ Len(chunk_results) = Len(ex_chunks)
          /\ Len(visited) = Len(ex_chunks)
          /\ WithoutIds(out.extracted_facts) = WithoutIds(Flatten(chunk_results))
    /\ ~out.returned => out.extracted_facts = <<>>

\* C7 witness: a chunk failed for good after facts of an earlier chunk had been
\* collected
C7_Witness ==
    /\ ex_pc = "raised"
    /\ all_facts # <<>>
    /\ chunk_idx = Len(ex_chunks)
    /\ ~out.returned

\* C8: chunks are passed to extract_chunk in the order of the chunk list, and
\* the i-th fact of the concatenation of the results (chunk order, then order
\* within the chunk) gets the id "f" + i zero-padded to 4 digits, so the ids of
\* the output are pairwise distinct and sequential from f0001.
C8_OrderedSequentialIds ==
    /\ Len(visited) <= Len(ex_chunks)
    /\ \A k \in 1..Len(visited) : visited[k] = ex_chunks[k].chunk_id
    /\ out.returned =>
          LET fs == out.extracted_facts
          IN /\ WithoutIds(fs) = WithoutIds(Flatten(chunk_results))
             /\ \A i \in 1..Len(fs) :
                   /\ FactIdMatches(fs[i].fact_id)
                   /\ DigitsValue(Tail(fs[i].fact_id)) = i
             /\ \A i, j \in 1..Len(fs) : i # j => fs[i].fact_id # fs[j].fact_id

\* C8 witness: an output of at least three facts from two chunks, two of which
\* the model had given the same id
C8_Witness ==
    /\ out.returned
    /\ Len(chunk_results) = 2
    /\ chunk_results[1] # <<>>
    /\ chunk_results[2] # <<>>
    /\ Len(out.extracted_facts) >= 3
    /\ \E i, j \in 1..Len(all_facts) : i # j /\ all_facts[i].fact_id = all_facts[j].fact_id

(***************************************************************************)
(* Claims about normalize_and_canonicalize and synthesize_workflow         *)
(***************************************************************************)
\* the citations of a sequence of facts
CitationsOfFacts(facts) ==
    UNION {Range(facts[k].citations) : k \in DOMAIN facts}

\* the nodes of the workflow that have a citations field
CitingNodes == {n \in Range(workflow.nodes) : "citations" \in DOMAIN n}

\* the citations of the nodes of the workflow
CitationsOfWorkflow == UNION {Range(n.citations) : n \in CitingNodes}

\* normalize_and_canonicalize has returned
NormalizeReturned == nz_pc \in {"done", "synth"}

\* C1: if every citation of the ExtractionOutput given to
\* normalize_and_canonicalize names a known chunk and lies within its bounds
\* with line_start <= line_end, then so does every citation of every fact it
\* returns, with or without a line-text map, and so does every citation of
\* every node of the workflow synthesize_workflow builds from that result.
C1_CitationValidityPreserved ==
    (\A c \in CitationsOfFacts(extraction) : ValidateCitation(GuidelineIndex, c))
    => /\ NormalizeReturned
          => \A c \in CitationsOfFacts(cleaned) : ValidateCitation(GuidelineIndex, c)
       /\ nz_pc = "synth"
          => \A c \in CitationsOfWorkflow : ValidateCitation(GuidelineIndex, c)

\* a workflow was built from a result in which facts were merged and spans
\* were tightened, and one of its nodes cites two places
C1_Witness ==
    /\ nz_pc = "synth"
    /\ line_text_by_no.given
    /\ step6.changed > 0
    /\ step6.exact_merges > 0
    /\ \E n \in CitingNodes : Len(n.citations) >= 2
    /\ \A c \in CitationsOfFacts(extraction) : ValidateCitation(GuidelineIndex, c)

\* the node of the workflow with this id
NodeOf(id) == CHOOSE n \in Range(workflow.nodes) : n.node_id = id

\* C3 as stated: every node of a workflow produced by synthesize_workflow
\* carries at least one citation.
C3_EveryNodeCites ==
    nz_pc = "synth"
    => \A n \in Range(workflow.nodes) :
           "citations" \in DOMAIN n /\ Len(n.citations) >= 1

\* C3, amended: a decision or action node carries at least one citation
\* exactly when the facts it is built from are not empty (population facts
\* for d0001, exclusion and contraindication facts for d0002, red_flag facts
\* for d0003 and a0001, the facts flagged for review or else all facts for
\* a0002); the two end nodes have no citations field.
C3_NodeCitesIffBucketNonEmpty ==
    nz_pc = "synth"
    => /\ Len(workflow.nodes) = 7
       /\ (Len(NodeOf(NodeId("d", 1)).citations) >= 1) <=> (PopulationFacts(cleaned) # <<>>)
       /\ (Len(NodeOf(NodeId("d", 2)).citations) >= 1) <=> (ExclContraFacts(cleaned) # <<>>)
       /\ (Len(NodeOf(NodeId("d", 3)).citations) >= 1) <=> (RedFlagFacts(cleaned) # <<>>)
       /\ (Len(NodeOf(NodeId("a", 1)).citations) >= 1) <=> (RedFlagFacts(cleaned) # <<>>)
       /\ (Len(NodeOf(NodeId("a", 2)).citations) >= 1) <=> (cleaned # <<>>)
       /\ "citations" \notin DOMAIN NodeOf(NodeId("e", 1))
       /\ "citations" \notin DOMAIN NodeOf(NodeId("e", 2))

\* a workflow built from facts with a population fact and a review-flagged
\* fact but no red_flag fact
C3_Witness ==
    /\ nz_pc = "synth"
    /\ PopulationFacts(cleaned) # <<>>
    /\ ReviewFacts(cleaned) # <<>>
    /\ RedFlagFacts(cleaned) = <<>>
    /\ Len(NodeOf(NodeId("d", 1)).citations) >= 1
    /\ Len(NodeOf(NodeId("d", 3)).citations) = 0

\* the value of a line field of a raw citation, the chunk's bound when the
\* field is missing
RawLine(val, bound) == IF val.k = "absent" THEN bound ELSE val.v

\* the line fields do not parse as integers, or the range lies entirely
\* outside the chunk
DroppedByChunk(c, chunk) ==
    \/ c.line_start.k = "nan"
    \/ c.line_end.k = "nan"
    \/ RawLine(c.line_end, chunk.line_end) < chunk.line_start
    \/ RawLine(c.line_start, chunk.line_start) > chunk.line_end

\* a number clamped into the chunk's bounds
ClampedIntoChunk(n, chunk) ==
    IF n < chunk.line_start THEN chunk.line_start
    ELSE IF n > chunk.line_end THEN chunk.line_end
    ELSE n

\* the chunk's id with the clamped raw endpoints, the smaller one first
ClampedCitation(c, chunk) ==
    LET a == ClampedIntoChunk(RawLine(c.line_start, chunk.line_start), chunk)
        b == ClampedIntoChunk(RawLine(c.line_end, chunk.line_end), chunk)
    IN [chunk_id |-> chunk.chunk_id,
        line_start |-> IF a <= b THEN a ELSE b,
        line_end |-> IF a <= b THEN b ELSE a]

\* C14: for a chunk with bounds [ls, le], every citation
\* normalize_citations_to_chunk keeps names the chunk and has
\* ls <= line_start <= line_end <= le; a citation is dropped exactly when its
\* line fields do not parse as integers or its range lies entirely outside
\* [ls, le]; missing line fields default to the chunk's bounds; and a kept
\* citation's endpoints are the raw endpoints clamped into [ls, le], swapped
\* if inverted (checked, when a chunk is passed to extract_chunk, for every
\* citation the model can write).  The facts extract_chunk returns carry, in
\* order, the citations kept of what the model wrote.
C14_CitationsClampedToChunk ==
    /\ ex_pc = "decode" /\ requests = <<>>
       => \E chunk \in {ex_chunks[chunk_idx]} :
             \A c \in RichCitations \cup PairCitations :
                \E got \in {NormalizeCitation(c, chunk)} :
                   /\ got = <<>> <=> DroppedByChunk(c, chunk)
                   /\ ~DroppedByChunk(c, chunk)
                      => /\ got = <<ClampedCitation(c, chunk)>>
                         /\ got[1].chunk_id = chunk.chunk_id
                         /\ chunk.line_start <= got[1].line_start
                         /\ got[1].line_start <= got[1].line_end
                         /\ got[1].line_end <= chunk.line_end
    /\ Len(ex_chunks) = 1 /\ Len(chunk_results) = 1
       => \A i \in DOMAIN chunk_results[1] :
             LET raw == accumulated.facts[i].citations
                 survivors == SelectSeq(raw, LAMBDA c : ~DroppedByChunk(c, ex_chunks[1]))
             IN chunk_results[1][i].citations
                   = [j \in DOMAIN survivors |-> ClampedCitation(survivors[j], ex_chunks[1])]

\* C14 witness: for the chunk of lines 3..5 the model wrote the inverted
\* {5,3} and, for another chunk, {2,2}; the fact returned carries {3,5} only
C14_Witness ==
    /\ Len(ex_chunks) = 1
    /\ Len(chunk_results) = 1
    /\ ex_chunks[1].line_start = 3
    /\ ex_chunks[1].line_end = 5
    /\ Len(chunk_results[1]) = 1
    /\ accumulated.facts[1].citations
          = <<RawCite(<<"c", "0", "0", "0", "2">>, IntVal(5), IntVal(3)),
              RawCite(<<"z", "z">>, IntVal(2), IntVal(2))>>
    /\ chunk_results[1][1].citations
          = <<[chunk_id |-> ex_chunks[1].chunk_id, line_start |-> 3, line_end |-> 5]>>

(***************************************************************************)
(* Claims about parse_guideline_lines                                      *)
(***************************************************************************)
\* every non-blank line was parsed and the second loop has ended
IngestChecked ==
    \/ ing_pc = "returned"
    \/ ing_pc = "raised" /\ ing_error.kind \in {"DuplicateLineNumber", "NonContiguousNumbering"}

\* the k-th record carries the first record's number plus k - 1
Contiguous(recs) == \A k \in DOMAIN recs : recs[k].line_no = recs[1].line_no + k - 1

\* the first record whose number is not the first record's number plus k - 1
FirstDeviation(recs) ==
    CHOOSE k \in DOMAIN recs :
        /\ recs[k].line_no # recs[1].line_no + k - 1
        /\ \A j \in 1..(k - 1) : recs[j].line_no = recs[1].line_no + j - 1

\* C11 as stated: whenever the numbers of the non-blank lines do not increase
\* by exactly 1 from the first record's number, parse_guideline_lines fails
\* with the non-contiguous-numbering error naming the expected number; and
\* whenever it returns, the records are non-empty and contiguous.
C11_GapAlwaysNonContiguous ==
    /\ (IngestChecked /\ ~Contiguous(ing_records))
       => /\ ing_pc = "raised"
          /\ ing_error.kind = "NonContiguousNumbering"
          /\ ing_error.expected =
                ing_records[1].line_no + FirstDeviation(ing_records) - 1
    /\ ing_pc = "returned" => ing_records # <<>> /\ Contiguous(ing_records)

\* C11: whenever the numbers of the non-blank lines do not increase by exactly
\* 1 from the first record's number, parse_guideline_lines fails; the failure
\* is the non-contiguous-numbering error, naming the expected number and the
\* number found, exactly when the first deviating record's number has not
\* occurred before it.  Whenever it returns, the records are non-empty and the
\* k-th record's line_no is the first record's line_no plus k - 1.
C11_GapFailsUnlessRepeated ==
    /\ (IngestChecked /\ ~Contiguous(ing_records))
       => LET k == FirstDeviation(ing_records)
              repeated == \E j \in 1..(k - 1) :
                              ing_records[j].line_no = ing_records[k].line_no
          IN /\ ing_pc = "raised"
             /\ ~repeated <=> ing_error.kind = "NonContiguousNumbering"
             /\ ~repeated => /\ ing_error.expected = ing_records[1].line_no + k - 1
                             /\ ing_error.got = ing_records[k].line_no
    /\ ing_pc = "returned" => ing_records # <<>> /\ Contiguous(ing_records)

\* C11 witness: the lines 1, 2, 4 (and a blank line) fail naming expected 3
C11_Witness ==
    /\ ing_pc = "raised"
    /\ Len(ing_file) = 4
    /\ [k \in DOMAIN ing_records |-> ing_records[k].line_no] = <<1, 2, 4>>
    /\ ing_error = [kind |-> "NonContiguousNumbering", expected |-> 3, got |-> 4]

\* C12 as stated: whenever some line number occurs more than once among the
\* parsed lines, parse_guideline_lines fails with the duplicate-line-number
\* error naming a number that occurs more than once, whatever the other line
\* numbers are.
C12_RepeatAlwaysDuplicate ==
    (/\ IngestChecked
     /\ \E i, j \in DOMAIN ing_records :
           i # j /\ ing_records[i].line_no = ing_records[j].line_no)
    => /\ ing_pc = "raised"
       /\ ing_error.kind = "DuplicateLineNumber"
       /\ \E i, j \in DOMAIN ing_records :
             /\ i # j
             /\ ing_records[i].line_no = ing_error.got
             /\ ing_records[j].line_no = ing_error.got

\* C12: parse_guideline_lines fails with the duplicate-line-number error
\* naming n exactly when the first record whose number is not the first
\* record's number plus its position carries a number n that an earlier record
\* carries (1, 2, 2, 3 fails naming 2); a repeated number after a gap is
\* reported as non-contiguous numbering instead.
C12_DuplicateIffRepeatBeforeGap ==
    IngestChecked
    => (ing_error.kind = "DuplicateLineNumber"
        <=> /\ ~Contiguous(ing_records)
            /\ \E j \in 1..(FirstDeviation(ing_records) - 1) :
                  /\ ing_records[j].line_no
                        = ing_records[FirstDeviation(ing_records)].line_no
                  /\ ing_error.got = ing_records[j].line_no)

\* C12 witness: the lines 1, 2, 2, 3 fail naming 2
C12_Witness ==
    /\ ing_pc = "raised"
    /\ [k \in DOMAIN ing_records |-> ing_records[k].line_no] = <<1, 2, 2, 3>>
    /\ ing_error = [kind |-> "DuplicateLineNumber", expected |-> 0, got |-> 2]

(***************************************************************************)
(* Claims about validate_citations.py                                      *)
(***************************************************************************)
\* chunk_id in the index, both line fields integers, line_start <= line_end
\* and the range within the chunk's own bounds
WithinChunkBounds(chunk_index, citation) ==
    /\ citation.chunk_id \in DOMAIN chunk_index
    /\ citation.line_start.k = "int"
    /\ citation.line_end.k = "int"
    /\ citation.line_start.v <= citation.line_end.v
    /\ chunk_index[citation.chunk_id].line_start <= citation.line_start.v
    /\ citation.line_end.v <= chunk_index[citation.chunk_id].line_end

\* C13: validate_citation_bounds accepts a citation if and only if its
\* chunk_id is in the chunk index, line_start and line_end are integers,
\* line_start <= line_end and the range lies within the chunk's bounds; and
\* validate_citations stops at the first failing citation: every citation
\* before the one it fails on was accepted, and it returns only when all were.
C13_BoundsAcceptedIffWithin ==
    /\ vc_pc \in {"loop", "returned", "raised"} /\ vc_error.kind # "DuplicateChunkId"
       => /\ \A k \in 1..(vc_i - 1) : WithinChunkBounds(vc_index, vc_citations[k])
          /\ \A c \in CitationDictPool :
                validate_citation_bounds(vc_index, c) = "ok" <=> WithinChunkBounds(vc_index, c)
    /\ vc_pc = "raised" /\ vc_error.kind # "DuplicateChunkId"
       => /\ vc_error.at = vc_i
          /\ ~WithinChunkBounds(vc_index, vc_citations[vc_i])
    /\ vc_pc = "returned" => vc_i = Len(vc_citations) + 1

\* C13 witness: with the chunk 10..15, {10,12} was accepted and validation
\* stopped at {14,11}, with {9,12} behind it never looked at
C13_Witness ==
    /\ vc_pc = "raised"
    /\ vc_error = [kind |-> "StartAfterEnd", at |-> 2]
    /\ vc_index[<<"c", "0", "0", "0", "1">>].line_start = 10
    /\ vc_index[<<"c", "0", "0", "0", "1">>].line_end = 15
    /\ vc_citations = <<RawCite(<<"c", "0", "0", "0", "1">>, IntVal(10), IntVal(12)),
                        RawCite(<<"c", "0", "0", "0", "1">>, IntVal(14), IntVal(11)),
                        RawCite(<<"c", "0", "0", "0", "1">>, IntVal(9), IntVal(12))>>

(***************************************************************************)
(* Claims about recover_truncated_chunk_json                               *)
(***************************************************************************)
\* the position in the text of the document at which its k-th fact object ends
FactEnd(doc, k) ==
    Len(doc.head) + 1 + Len(JoinWithComma(SubSeq(doc.facts, 1, k)))

\* the number of fact objects of the document that the text holds completely
CompleteFacts(doc, text) ==
    Cardinality({k \in DOMAIN doc.facts : FactEnd(doc, k) <= Len(text)})

\* the text is cut within the facts array or at its closing bracket
CutInFactsArray(doc, text) == Len(text) <= FactEnd(doc, Len(doc.facts)) + 1

\* the document of the first k fact objects, array and root object closed
ClosedDoc(doc, k) ==
    LStrip(doc.head) \o <<"[">> \o JoinWithComma(SubSeq(doc.facts, 1, k)) \o <<"]", "}">>

\* C15 as stated: for a text that begins with {"extracted_facts" and whose
\* facts array holds k >= 1 complete fact objects followed by a truncated
\* remainder, recover_truncated_chunk_json returns the document of exactly
\* those k objects, in order, with array and root object closed, whatever
\* braces, brackets, escaped quotes and nested objects or arrays the facts
\* hold; and it returns nothing when no fact object is complete or the text
\* does not start with that prefix.
C15_RecoversCompleteFactsOnly ==
    rc_pc = "returned"
    => /\ (/\ StartsWith(Strip(rc_text), ExtractedFactsPrefix)
           /\ CompleteFacts(rc_doc, rc_text) >= 1
           /\ CutInFactsArray(rc_doc, rc_text))
          => rc_result = [found |-> TRUE,
                          text |-> ClosedDoc(rc_doc, CompleteFacts(rc_doc, rc_text))]
       /\ (\/ ~StartsWith(Strip(rc_text), ExtractedFactsPrefix)
           \/ CompleteFacts(rc_doc, rc_text) = 0)
          => rc_result = NoRecovery

(***************************************************************************)
(* Claims about the exact deduplication of normalize_and_canonicalize      *)
(***************************************************************************)
\* the (fact_type, fingerprint) pairs of a list of facts
BucketKeys(facts) == AsSeq([k \in DOMAIN facts |-> BucketKey(facts[k])])

\* m has the longest statement of the members and, among the longest, the
\* smallest fact_id
LongestSmallestId(members, m) ==
    \A k \in DOMAIN members :
        \/ Len(m.statement) > Len(members[k].statement)
        \/ /\ Len(m.statement) = Len(members[k].statement)
           /\ ~SeqLess(StrKey(members[k].fact_id), StrKey(m.fact_id))

\* the citation c of a member is among the citations cits: same chunk, and
\* the same lines, or lines inside c's when a line-text map let the
\* citations be tightened
Represented(c, cits, tightened) ==
    \E k \in DOMAIN cits :
        /\ cits[k].chunk_id = c.chunk_id
        /\ IF tightened
           THEN c.line_start <= cits[k].line_start /\ cits[k].line_start <= cits[k].line_end
                /\ cits[k].line_end <= c.line_end
           ELSE cits[k].line_start = c.line_start /\ cits[k].line_end = c.line_end

\* every citation of every member is represented in cits
MembersRepresented(members, cits, tightened) ==
    \A k \in DOMAIN members : \A j \in DOMAIN members[k].citations :
        Represented(members[k].citations[j], cits, tightened)

\* the fact o has the statement of the longest member (ties: smallest
\* fact_id) and holds every member's citation
CollapsedInto(members, o) ==
    /\ \E k \in DOMAIN members :
          /\ o.statement = members[k].statement
          /\ LongestSmallestId(members, members[k])
    /\ MembersRepresented(members, o.citations, FALSE)

\* after the exact dedup: each bucket of the kept facts, of keys kk, is one
\* fact of merged_exact, of keys ek, and merged_exact holds nothing else
OnePerBucket(kk, ek) ==
    /\ \A k \in DOMAIN kept :
          /\ Cardinality({i \in DOMAIN ek : ek[i] = kk[k]}) = 1
          /\ \E i \in DOMAIN ek :
                /\ ek[i] = kk[k]
                /\ CollapsedInto(Pick(kept, kk, kk[k]), merged_exact[i])
    /\ \A i \in DOMAIN ek : \E k \in DOMAIN kk : kk[k] = ek[i]

\* in the output, of keys ck: no two facts share a key, and the members of
\* each bucket, of keys kk, went to one fact of their type that has a kept
\* statement no shorter than theirs and represents their citations
OutputDistinct(kk, ck) ==
    /\ \A i, j \in DOMAIN ck : ck[i] = ck[j] => i = j
    /\ Len(cleaned) = Len(merged_exact) - step6.fuzzy_merges
    /\ \A k \in DOMAIN kept :
          \E i \in DOMAIN cleaned :
             /\ cleaned[i].fact_type = kept[k].fact_type
             /\ Len(cleaned[i].statement) >= Len(kept[k].statement)
             /\ \E j \in DOMAIN kept : cleaned[i].statement = kept[j].statement
             /\ MembersRepresented(Pick(kept, kk, kk[k]), cleaned[i].citations,
                                   line_text_by_no.given)

\* C16: the kept facts of one refined fact_type and one fingerprint become
\* exactly one fact, whose statement is the longest member statement (ties:
\* smallest fact_id) and whose citations hold every member's citation; no
\* two facts of the output share (fact_type, fingerprint), and every
\* member's citation is represented in the output fact its bucket went to.
\* The first part is read when the exact dedup has just run, the second when
\* normalize_and_canonicalize returns.
C16_ExactDuplicatesCollapse ==
    /\ nz_pc = "fuzzy"
       => \E kk \in {BucketKeys(kept)} : \E ek \in {BucketKeys(merged_exact)} :
             OnePerBucket(kk, ek)
    /\ nz_pc = "done"
       => \E kk \in {BucketKeys(kept)} : \E ck \in {BucketKeys(cleaned)} :
             OutputDistinct(kk, ck)

\* two kept facts of one bucket, the second with the longer statement and
\* the larger fact_id, became one fact with the second's statement and both
\* citations
C16_Witness ==
    /\ nz_pc = "done"
    /\ Len(kept) = 2 /\ Len(cleaned) = 1
    /\ BucketKey(kept[1]) = BucketKey(kept[2])
    /\ Len(kept[1].statement) < Len(kept[2].statement)
    /\ SeqLess(StrKey(kept[1].fact_id), StrKey(kept[2].fact_id))
    /\ cleaned[1].statement = kept[2].statement
    /\ ~line_text_by_no.given
    /\ Len(cleaned[1].citations) = 2

(***************************************************************************)
(* Claims about requires_human_review in normalize_and_canonicalize        *)
(***************************************************************************)
WeakStrengths == {"may", "consider", "unclear"}

\* the place of a strength in unclear < may < consider < should < must
StrengthRank(s) ==
    CHOOSE k \in 1..5 : <<"unclear", "may", "consider", "should", "must">>[k] = s

\* every fact of the list with a weak strength is flagged
WeakFlagged(facts) ==
    \A k \in DOMAIN facts :
        facts[k].strength \in WeakStrengths => facts[k].requires_human_review

\* the kept facts carry the input flag unless their strength is weak;
\* survivors are the input facts that were kept, in order
FlagKeptOrForced(survivors) ==
    /\ Len(survivors) = Len(kept)
    /\ \A k \in DOMAIN kept :
          kept[k].requires_human_review
          = (kept[k].strength \in WeakStrengths \/ survivors[k].requires_human_review)

\* each fact of after stands for facts of before: every fact of before has
\* a fact of after of its type that is at least as strong and is flagged if
\* it is, and a fact of after is no stronger than the strongest of before
\* and flagged only if one of before is or its strength is weak
StrongestAndAnyFlag(before, after) ==
    /\ \A k \in DOMAIN before : \E i \in DOMAIN after :
          /\ after[i].fact_type = before[k].fact_type
          /\ StrengthRank(after[i].strength) >= StrengthRank(before[k].strength)
          /\ before[k].requires_human_review => after[i].requires_human_review
    /\ \A i \in DOMAIN after : \E k \in DOMAIN before :
          /\ before[k].fact_type = after[i].fact_type
          /\ before[k].strength = after[i].strength
    /\ \A i \in DOMAIN after :
          after[i].requires_human_review
          => \E k \in DOMAIN before :
                /\ before[k].fact_type = after[i].fact_type
                /\ before[k].requires_human_review

\* C17: every fact of the output whose strength is may, consider or unclear
\* has requires_human_review = TRUE, whatever its input flag and also when
\* it was merged (strength: the strongest member's, flag: TRUE if any
\* member's is); the flag of a must or should fact is the input flag, never
\* forced to FALSE.
C17_WeakStrengthNeedsReview ==
    /\ nz_pc \in {"done", "synth"} => WeakFlagged(cleaned)
    /\ nz_pc = "exact"
       => FlagKeptOrForced(SelectSeq(extraction, LAMBDA f :
              \E k \in DOMAIN kept : kept[k].fact_id = f.fact_id
                                      /\ kept[k].citations = f.citations))
    /\ nz_pc = "fuzzy" => StrongestAndAnyFlag(kept, merged_exact) /\ WeakFlagged(merged_exact)
    /\ nz_pc = "tighten"
       => StrongestAndAnyFlag(merged_exact, merged_fuzzy) /\ WeakFlagged(merged_fuzzy)
    /\ nz_pc = "done" => StrongestAndAnyFlag(merged_fuzzy, cleaned)

\* two facts given unflagged, of strengths unclear and may after refinement,
\* were merged into one fact of strength may that is flagged
C17_Witness ==
    /\ nz_pc = "done"
    /\ Len(extraction) = 2
    /\ ~extraction[1].requires_human_review /\ ~extraction[2].requires_human_review
    /\ Len(kept) = 2 /\ kept[1].strength = "unclear" /\ kept[2].strength = "may"
    /\ step6.exact_merges = 1
    /\ Len(cleaned) = 1
    /\ cleaned[1].strength = "may"
    /\ cleaned[1].requires_human_review

(***************************************************************************)
(* Claims about validate_workflow_graph                                    *)
(***************************************************************************)
RECURSIVE ReachableIn(_, _, _)
\* the node ids reached from the ids of r in at most n decision edges
ReachableIn(w, r, n) ==
    IF n = 0 THEN r
    ELSE ReachableIn(w,
             r \cup UNION {{m.true_next, m.false_next} :
                              m \in {x \in Range(w.nodes) : IsDecision(x) /\ x.node_id \in r}},
             n - 1)

\* distinct ids, an existing start node, decision edges to existing nodes,
\* every node reachable from the start node along decision edges
WellFormedWorkflow(w) ==
    /\ \A i, j \in DOMAIN w.nodes : w.nodes[i].node_id = w.nodes[j].node_id => i = j
    /\ \E k \in DOMAIN w.nodes : w.nodes[k].node_id = w.start_node_id
    /\ \A k \in DOMAIN w.nodes :
          IsDecision(w.nodes[k])
          => /\ \E j \in DOMAIN w.nodes : w.nodes[j].node_id = w.nodes[k].true_next
             /\ \E j \in DOMAIN w.nodes : w.nodes[j].node_id = w.nodes[k].false_next
    /\ \A k \in DOMAIN w.nodes :
          w.nodes[k].node_id \in ReachableIn(w, {w.start_node_id}, Len(w.nodes))

\* the ids are exactly the unreachable node ids, each once, in string order
UnreachableSorted(w, ids) ==
    /\ Range(ids) = Range(NodeIds(w)) \ ReachableIn(w, {w.start_node_id}, Len(w.nodes))
    /\ ids # <<>>
    /\ \A k \in 1..(Len(ids) - 1) : SeqLess(StrKey(ids[k]), StrKey(ids[k + 1]))

\* validate_workflow_graph has returned or raised
WorkflowValidated == vw_pc \in {"returned", "raised"}

\* what is left of the traversal: it falls with every turn of the loop
WalkMeasure ==
    Len(vw_stack) + 3 * (Len(vw_workflow.nodes) - Cardinality(vw_reachable))

\* the outcome of validate_workflow_graph
WorkflowVerdict ==
    /\ WorkflowValidated
       => /\ vw_pc = "returned" <=> WellFormedWorkflow(vw_workflow)
          /\ vw_pc = "returned" <=> vw_error = NoWorkflowError
          /\ vw_error.kind = "UnreachableNodes"
             => UnreachableSorted(vw_workflow, vw_error.nodes)
          /\ vw_error.kind # "UnreachableNodes" => vw_error.nodes = <<>>
    /\ vw_pc = "walk" => WalkMeasure >= 0

\* C19: validate_workflow_graph accepts a workflow exactly when its node
\* ids are distinct, start_node_id names a node, every decision edge names a
\* node and every node is reachable from the start node along decision
\* edges; the traversal terminates, on cyclic graphs too (every turn of the
\* loop lowers a measure that is never negative); unreachable nodes make it
\* fail once, naming all of them in sorted order.
C19_AcceptsIffWellFormed ==
    /\ []WorkflowVerdict
    /\ [][ValidateWorkflowVisit => WalkMeasure' < WalkMeasure]_vars

\* end nodes e0001, e0002 and action a0001, started at e0001: the two
\* unreferenced nodes are named, a0001 before e0002
C19_Witness ==
    /\ vw_pc = "raised"
    /\ vw_workflow = [nodes |-> <<EndNode(E1), EndNode(E2), ActionNode(A1, <<>>)>>,
                      start_node_id |-> E1]
    /\ vw_error = WorkflowError("UnreachableNodes", <<A1, E2>>)

(***************************************************************************)
(* Claims about the shape of the synthesized workflow                      *)
(***************************************************************************)
\* the number of nodes of a type
NodesOfType(w, t) == Cardinality({k \in DOMAIN w.nodes : w.nodes[k].node_type = t})

\* the funnel: population decision p, exclusion decision x, red-flag
\* decision r, with the two ends and the two actions they lead to
FunnelEdges(w, p, x, r) ==
    /\ IsDecision(p) /\ IsDecision(x) /\ IsDecision(r)
    /\ p.citations = merge_fact_citations(PopulationFacts(cleaned))
    /\ x.citations = merge_fact_citations(ExclContraFacts(cleaned))
    /\ r.citations = merge_fact_citations(RedFlagFacts(cleaned))
    /\ p.true_next = x.node_id
    /\ NodeById(w, p.false_next).node_type = "end"
    /\ NodeById(w, x.true_next).node_type = "end"
    /\ x.true_next # p.false_next
    /\ x.false_next = r.node_id
    /\ NodeById(w, r.true_next).node_type = "action"
    /\ NodeById(w, r.true_next).citations = r.citations
    /\ NodeById(w, r.false_next).node_type = "action"
    /\ r.true_next # r.false_next

\* C18: synthesize_workflow returns 7 nodes (3 decision, 2 action, 2 end)
\* with pairwise distinct ids; start_node_id is the population decision;
\* population leads to the exclusion decision or the not-applicable end,
\* exclusion to the excluded end or the red-flag decision, red-flag to the
\* red-flag action or the review action; validate_workflow_graph accepts
\* the workflow.
C18_SevenNodeFunnelAccepted ==
    nz_pc = "synth"
    => /\ validate_workflow_graph(workflow) = NoWorkflowError
       /\ WellFormedWorkflow(workflow)
       /\ Len(workflow.nodes) = 7
       /\ Cardinality(Range(NodeIds(workflow))) = 7
       /\ NodesOfType(workflow, "decision") = 3
       /\ NodesOfType(workflow, "action") = 2
       /\ NodesOfType(workflow, "end") = 2
       /\ \E p \in {NodeById(workflow, workflow.start_node_id)} :
          \E x \in {NodeById(workflow, p.true_next)} :
          \E r \in {NodeById(workflow, x.false_next)} :
             FunnelEdges(workflow, p, x, r)

\* a workflow synthesized from two facts, none of them a population fact:
\* the seven nodes are there and the start node cites nothing
C18_Witness ==
    /\ nz_pc = "synth"
    /\ Len(cleaned) = 2
    /\ PopulationFacts(cleaned) = <<>>
    /\ RedFlagFacts(cleaned) # <<>>
    /\ Len(workflow.nodes) = 7
    /\ workflow.start_node_id = NodeId("d", 1)
    /\ NodeById(workflow, NodeId("d", 1)).citations = <<>>
    /\ NodeById(workflow, NodeId("d", 1)).true_next = NodeId("d", 2)

(***************************************************************************)
(* Claims about run_all                                                    *)
(***************************************************************************)
\* the second call, with resume, has returned; the first call wrote every
\* artifact and only the step-7 output was deleted in between
ResumedAfterDeletingStep7 ==
    /\ ra_pc = "done"
    /\ ra_run = 2
    /\ ra_resume
    /\ ra_outcomes = <<"done", "done">>
    /\ ra_deleted[1] = {"step7_workflow"}

\* C20 as stated: after one complete run, with only the step-7 output
\* deleted, run_all with resume executes steps 7, 8 and 9 (and step 2) and
\* skips steps 1, 3, 4, 5 and 6: the steps downstream of a re-executed step
\* are re-executed, so that no artifact derived from the deleted output is
\* kept.
C20_ResumeRerunsDownstream ==
    ResumedAfterDeletingStep7
    => /\ ra_ran = <<"step2", "step7", "step8", "step9">>
       /\ ra_skipped = <<"step1", "step3", "step4", "step5", "step6">>
       /\ \A k \in 8..9 : PipelineSteps[k].name \in Range(ra_ran)


(***************************************************************************)
(* C21: the run metadata is written only after every step was visited      *)
(***************************************************************************)
StepNames == [k \in DOMAIN PipelineSteps |-> PipelineSteps[k].name]

StepIndex(name) == CHOOSE k \in DOMAIN PipelineSteps : PipelineSteps[k].name = name

\* the names of a list are distinct step names in the order of the pipeline
InStepOrder(names) ==
    /\ \A a \in DOMAIN names : names[a] \in Range(StepNames)
    /\ \A a, b \in DOMAIN names : a < b => StepIndex(names[a]) < StepIndex(names[b])

\* the steps before position n are each in exactly one of the two lists:
\* skipped under --resume with every declared output present, or executed
\* and, when outputs are declared, all of them present
VisitedUpTo(n) ==
    /\ InStepOrder(ra_ran) /\ InStepOrder(ra_skipped)
    /\ Range(ra_ran) \cup Range(ra_skipped) = {PipelineSteps[k].name : k \in 1..(n - 1)}
    /\ Range(ra_ran) \cap Range(ra_skipped) = {}
    /\ ra_called = ra_ran
    /\ \A k \in 1..(n - 1) :
          /\ PipelineSteps[k].name \in Range(ra_skipped) =>
                ra_resume /\ PipelineSteps[k].checked
          /\ PipelineSteps[k].checked =>
                \A p \in PipelineSteps[k].outputs : Exists(ra_files, p)

\* C21: while run_all loops the steps visited so far are exactly those before
\* the current one, in the fixed order, each skipped by resume or executed
\* with its declared outputs present; the run metadata (success = true) is
\* written only by the call that visited all nine steps this way, and on
\* success every step name is in exactly one of ran_steps and skipped_steps.
C21_ManifestOnlyAfterAllSteps ==
    /\ [](ra_pc = "loop" => VisitedUpTo(ra_step))
    /\ [](ra_pc = "done" =>
             /\ Len(ra_ran) + Len(ra_skipped) = Len(PipelineSteps)
             /\ Range(ra_ran) \cup Range(ra_skipped) = Range(StepNames)
             /\ Range(ra_ran) \cap Range(ra_skipped) = {}
             /\ ra_manifests.metadata = ra_run)
    /\ [][ra_manifests' # ra_manifests =>
             /\ ra_pc = "loop" /\ ra_pc' = "done"
             /\ ra_step = Len(PipelineSteps) + 1
             /\ VisitedUpTo(Len(PipelineSteps) + 1)
             /\ ra_manifests'.metadata = ra_run]_vars

\* a resumed call that skipped some steps, executed others and wrote the metadata
C21_Witness ==
    /\ ra_pc = "done"
    /\ ra_manifests.metadata = ra_run
    /\ ra_skipped # <<>>
    /\ ra_ran # <<>>
    /\ Len(ra_ran) + Len(ra_skipped) = Len(PipelineSteps)


(***************************************************************************)
(* C26: a missing declared output or a missing guideline stops run_all     *)
(***************************************************************************)
\* the current call has written neither manifest
NoManifestThisCall ==
    /\ ra_manifests.hashes # ra_run
    /\ ra_manifests.metadata # ra_run

\* C26: a step that was executed and returned with a declared output missing
\* makes run_all raise at that step; once a call has raised it invokes no
\* further step and writes neither the hash manifest nor the run metadata;
\* with the guideline file absent the call raises before any step is invoked.
C26_MissingOutputStopsRun ==
    /\ [](ra_pc = "raised" =>
             /\ NoManifestThisCall
             /\ IF ra_guideline
                THEN /\ ra_step \in DOMAIN PipelineSteps
                     /\ ra_called = Append(ra_ran, PipelineSteps[ra_step].name)
                ELSE ra_called = <<>> /\ ra_ran = <<>> /\ ra_skipped = <<>>)
    /\ [](~ra_guideline => ra_called = <<>> /\ ra_pc # "loop" /\ ra_manifests = NoManifests)
    /\ [][(/\ ra_pc = "loop"
           /\ ra_called' # ra_called
           /\ MissingOutputs(PipelineSteps[ra_step], ra_files'))
             => (/\ ra_pc' = "raised"
                 /\ ra_step' = ra_step
                 /\ ra_ran' = ra_ran
                 /\ ra_manifests' = ra_manifests)]_vars
    /\ [][(ra_pc = "raised" /\ ra_run' = ra_run)
             => (/\ ra_called' = ra_called
                 /\ ra_manifests' = ra_manifests
                 /\ ra_pc' = "raised")]_vars

\* a step with declared outputs was executed, an output is missing, run_all raised
C26_Witness ==
    /\ ra_pc = "raised"
    /\ ra_guideline
    /\ ra_step \in DOMAIN PipelineSteps
    /\ MissingOutputs(PipelineSteps[ra_step], ra_files)
    /\ ra_called = Append(ra_ran, PipelineSteps[ra_step].name)
    /\ ra_step < Len(PipelineSteps)


(***************************************************************************)
(* C22: deterministic re-identification                                    *)
(***************************************************************************)
\* the FactType values in ascending string order
FactTypeValues ==
    <<"action", "contraindication", "diagnostic", "exclusion", "follow_up", "other",
      "population", "red_flag", "threshold">>

\* f < g by (fact_type value, lowercased statement, fact_id)
ComesBefore(f, g) ==
    LET rf == CHOOSE k \in DOMAIN FactTypeValues : FactTypeValues[k] = f.fact_type
        rg == CHOOSE k \in DOMAIN FactTypeValues : FactTypeValues[k] = g.fact_type
    IN IF rf # rg THEN rf < rg
       ELSE IF Lower(f.statement) # Lower(g.statement)
            THEN SeqLess(StrKey(Lower(f.statement)), StrKey(Lower(g.statement)))
            ELSE SeqLess(StrKey(f.fact_id), StrKey(g.fact_id))

IndexPermutations(n) == {q \in [1..n -> 1..n] : \A a, b \in 1..n : q[a] = q[b] => a = b}

Permuted(s, q) == AsSeq([k \in DOMAIN s |-> s[q[k]]])

SequentialIds ==
    <<<<"f", "0", "0", "0", "1">>, <<"f", "0", "0", "0", "2">>, <<"f", "0", "0", "0", "3">>,
      <<"f", "0", "0", "0", "4">>>>

\* C22: the facts returned by normalize_and_canonicalize carry the ids f0001,
\* f0002, ... fN in sequence, pairwise distinct; they are the merged facts in
\* strictly ascending order of (fact_type value, lowercased statement, fact_id
\* before re-identification), and the same ids result from every order in
\* which the merged facts could have been listed.
C22_IdsFollowSortKey ==
    nz_pc = "done" =>
        /\ Len(cleaned) = Len(merged_fuzzy)
        /\ \A k \in DOMAIN cleaned : cleaned[k].fact_id = SequentialIds[k]
        /\ \A a, b \in DOMAIN cleaned : cleaned[a].fact_id = cleaned[b].fact_id => a = b
        /\ \E q \in IndexPermutations(Len(merged_fuzzy)) :
              /\ \A k \in DOMAIN cleaned :
                    cleaned[k] = [merged_fuzzy[q[k]] EXCEPT !.fact_id = SequentialIds[k]]
              /\ \A k \in 1..(Len(cleaned) - 1) :
                    ComesBefore(merged_fuzzy[q[k]], merged_fuzzy[q[k + 1]])
        /\ \A q \in IndexPermutations(Len(merged_fuzzy)) :
              ReIdentify(Permuted(merged_fuzzy, q)) = cleaned

\* two facts were returned whose order after merging is not the order of their ids
C22_Witness ==
    /\ nz_pc = "done"
    /\ Len(cleaned) >= 2
    /\ Len(merged_fuzzy) = Len(cleaned)
    /\ ComesBefore(merged_fuzzy[2], merged_fuzzy[1])
    /\ cleaned[1].statement = merged_fuzzy[2].statement
    /\ cleaned[1].fact_id # merged_fuzzy[2].fact_id


(***************************************************************************)
(* C29: fact conservation of normalize_and_canonicalize                    *)
(***************************************************************************)
\* the input facts whose normalized statement is a header or junk
JunkInputs ==
    {k \in DOMAIN extraction :
        looks_like_header_or_junk(normalize_text(extraction[k].statement), nz_cfg)}

\* g sends every kept fact to the one output fact that represents it: same
\* refined type, a kept statement, the fact's citations; every output fact
\* represents at least one kept fact
RepresentsAll(g) ==
    /\ \A i \in DOMAIN cleaned : \E k \in DOMAIN kept : g[k] = i
    /\ \A k \in DOMAIN kept :
          /\ cleaned[g[k]].fact_type = kept[k].fact_type
          /\ \E j \in DOMAIN kept : g[j] = g[k] /\ cleaned[g[k]].statement = kept[j].statement
          /\ \A j \in DOMAIN kept[k].citations :
                Represented(kept[k].citations[j], cleaned[g[k]].citations,
                            line_text_by_no.given)

\* the facts of the output, without their ids, are those of facts in some order
SameFactsUpToIds(facts) ==
    /\ Len(cleaned) = Len(facts)
    /\ \E q \in IndexPermutations(Len(facts)) :
          \A k \in DOMAIN cleaned :
             [cleaned[k] EXCEPT !.fact_id = facts[q[k]].fact_id] = facts[q[k]]

\* C29: at return the dropped count is the number of header/junk inputs, the
\* kept facts are the other inputs in order, each kept fact is represented by
\* one output fact and each output fact represents some kept fact, and
\* len(output) = len(input) - dropped - exact_merges - fuzzy_merges; when the
\* comparison cap was hit with no comparison allowed, nothing was merged by
\* the fuzzy pass and its output is its input.
C29_FactsConserved ==
    nz_pc = "done" =>
        /\ step6.dropped = Cardinality(JunkInputs)
        /\ Len(kept) = Len(extraction) - step6.dropped
        /\ step6.exact_merges >= 0 /\ step6.fuzzy_merges >= 0
        /\ Len(cleaned) = Len(extraction) - step6.dropped - step6.exact_merges
                              - step6.fuzzy_merges
        /\ \E g \in [DOMAIN kept -> DOMAIN cleaned] : RepresentsAll(g)
        /\ (step6.capped /\ nz_cfg.max_fuzzy_comp_per_type = 0) =>
              /\ step6.fuzzy_merges = 0
              /\ Len(cleaned) = Len(merged_exact)
              /\ ~line_text_by_no.given => SameFactsUpToIds(merged_exact)

\* the cap was hit while two facts of one type were still to be compared;
\* both are in the output
C29_Witness ==
    /\ nz_pc = "done"
    /\ step6.capped
    /\ Len(merged_exact) >= 2
    /\ Len(cleaned) = Len(merged_exact)
    /\ cleaned[1].fact_type = cleaned[2].fact_type


(***************************************************************************)
(* C30: no citation key twice in a fact                                    *)
(***************************************************************************)
\* no fact of the list has two citations with one (chunk_id, line_start, line_end)
NoRepeatedCitationKey(facts) ==
    \A k \in DOMAIN facts : \A a, b \in DOMAIN facts[k].citations :
        citation_key(facts[k].citations[a]) = citation_key(facts[k].citations[b]) => a = b

\* C30: if no fact given to normalize_and_canonicalize lists one
\* (chunk_id, line_start, line_end) twice, then no fact it returns does, with
\* or without a line-text map.
C30_NoRepeatedKeyInOutput ==
    (nz_pc = "done" /\ NoRepeatedCitationKey(extraction)) => NoRepeatedCitationKey(cleaned)

\* the same without a line-text map, where the spans are not tightened
C30_NoRepeatedKeyWithoutLineText ==
    (nz_pc = "done" /\ ~line_text_by_no.given /\ NoRepeatedCitationKey(extraction))
        => NoRepeatedCitationKey(cleaned)


(***************************************************************************)
(* C23: citations that vanished in normalization                           *)
(***************************************************************************)
\* the accumulated text parses, its facts have a well-formed fact_id and
\* fact_type, and the citation list of one of them is empty after
\* normalize_citations_to_chunk
CitationsVanished(acc, chunk) ==
    LET p == ParseJsonStrict(acc)
    IN /\ p[1]
       /\ \A k \in 1..Len(p[2]) :
             /\ FactIdMatches(p[2][k].fact_id)
             /\ NormalizeFactType(p[2][k].fact_type) \in FactTypes
       /\ \E k \in 1..Len(p[2]) : NormalizeCitationsToChunk(p[2][k].citations, chunk) = <<>>

\* C23 (as claimed): a decode step below the token cap whose accumulated text
\* parses but holds a fact left without citations by the normalization does
\* not end the attempt: extract_chunk goes on to request the next increment.
C23_VanishedCitationsKeepGenerating ==
    [][(/\ ex_pc = "decode"
        /\ generated < hard_cap_tokens
        /\ generated' = generated + step_tokens
        /\ CitationsVanished(accumulated', ex_chunks[chunk_idx]))
          => (ex_pc' = "decode" /\ attempt' = attempt)]_vars


(***************************************************************************)
(* C24: the failure that reaches the caller                                *)
(***************************************************************************)
\* C24 (as claimed): when the last attempt for a chunk has failed, the
\* exception that leaves extract_chunk and run_extraction is ExtractionError.
C24_CallerSeesExtractionError ==
    ex_pc = "raised" => ex_error = "ExtractionError"


(***************************************************************************)
(* C25: the character limit is soft                                        *)
(***************************************************************************)
\* the sum of len(f"{line_no}. {text}") + 1 over the records of a chunk
RenderedLen(lines) == SeqSum(AsSeq([k \in DOMAIN lines |-> FormatLineLen(lines[k]) + 1]))

NamesDecision(w, id) ==
    /\ \E k \in DOMAIN w.nodes : w.nodes[k].node_id = id
    /\ \A k \in DOMAIN w.nodes :
          (w.nodes[k].node_id = id /\ \A j \in DOMAIN w.nodes : j > k => w.nodes[j].node_id # id)
             => w.nodes[k].node_type = "decision"

\* the node the walk goes to after the decision n: its true target if that is
\* a decision node, else its false target
FollowedTarget(n) == IF NamesDecision(rs_wf, n.true_next) THEN n.true_next ELSE n.false_next

\* the nodes not yet visited; it shrinks with every turn of the loop
WalkRemaining == Cardinality(Range(NodeIds(rs_wf)) \ rs_seen)

\* why the walk ended after its last node n
StoppedAt(n) ==
    \/ n.true_next = <<>> \/ n.false_next = <<>>
    \/ ~NamesDecision(rs_wf, n.true_next) /\ ~NamesDecision(rs_wf, n.false_next)
    \/ FollowedTarget(n) \in rs_seen

\* C27: the chain holds decision nodes only and no node id twice; every turn
\* of the loop either ends the walk or lowers the number of unvisited nodes,
\* so the walk ends on every graph; the chain starts at the start node and
\* follows the true target if it is a decision, else the false target; the
\* walk ends when a target is empty, when neither target is a decision node,
\* or when the node to follow was visited before; for a synthesized workflow
\* the chain is the population, exclusion and red-flag decisions in order.
C27_DecisionChainWalkEnds ==
    /\ [](/\ \A k \in DOMAIN decision_chain : decision_chain[k].node_type = "decision"
          /\ \A a, b \in DOMAIN decision_chain :
                decision_chain[a].node_id = decision_chain[b].node_id => a = b
          /\ rs_seen = {decision_chain[k].node_id : k \in DOMAIN decision_chain}
          /\ WalkRemaining >= 0)
    /\ [][rs_pc = "walk" => (rs_pc' = "done" \/ WalkRemaining' < WalkRemaining)]_vars
    /\ [](rs_pc = "done" =>
            /\ decision_chain = <<>> <=> ~NamesDecision(rs_wf, rs_wf.start_node_id)
            /\ decision_chain # <<>> =>
                  /\ decision_chain[1].node_id = rs_wf.start_node_id
                  /\ \A k \in 1..(Len(decision_chain) - 1) :
                        /\ decision_chain[k].true_next # <<>>
                        /\ decision_chain[k].false_next # <<>>
                        /\ decision_chain[k + 1].node_id = FollowedTarget(decision_chain[k])
                  /\ StoppedAt(decision_chain[Len(decision_chain)])
            /\ rs_wf \in SynthesizedWorkflows =>
                  AsSeq([k \in DOMAIN decision_chain |-> decision_chain[k].node_id])
                     = <<NodeId("d", 1), NodeId("d", 2), NodeId("d", 3)>>)

\* the walk went round a cycle of two decisions and ended at the node it began with
C27_Witness ==
    /\ rs_pc = "done"
    /\ Len(decision_chain) = 2
    /\ FollowedTarget(decision_chain[2]) = decision_chain[1].node_id
    /\ decision_chain[2].true_next # <<>>
    /\ decision_chain[2].false_next # <<>>


(***************************************************************************)
(* C28: the two citation validators agree                                  *)
(***************************************************************************)
\* a citation dictionary with a string chunk_id and integer line fields
TypedCitation(c) ==
    /\ c.chunk_id # <<>>
    /\ c.line_start.k = "int"
    /\ c.line_end.k = "int"

\* the list names one (chunk_id, line_start, line_end) twice
RepeatsKey(citations) ==
    \E a, b \in DOMAIN citations :
        /\ a # b
        /\ citations[a].chunk_id = citations[b].chunk_id
        /\ citations[a].line_start = citations[b].line_start
        /\ citations[a].line_end = citations[b].line_end

\* C28: with the chunk index and the Traceability Index built from the same
\* chunks, traceability.validate_citation accepts a citation with a string
\* chunk_id and integer line fields exactly when validate_citation_bounds
\* does; on a list of such citations validate_citations_list succeeds exactly
\* when validate_citations returns and no key is listed twice, and it yields
\* the parsed citations, all of them, only when it succeeds.
C28_ValidatorsAgree ==
    vc_trace.called =>
        /\ \A c \in CitationDictPool :
              TypedCitation(c) =>
                 (ValidateCitation(BuildTraceIndex(vc_chunks), ParsedCitation(c))
                     <=> validate_citation_bounds(vc_index, c) = "ok")
        /\ (\A k \in DOMAIN vc_citations : TypedCitation(vc_citations[k])) =>
              (vc_trace.ok <=> (vc_pc = "returned" /\ ~RepeatsKey(vc_citations)))
        /\ vc_trace.ok =>
              /\ Len(vc_trace.parsed) = Len(vc_citations)
              /\ \A k \in DOMAIN vc_citations :
                    /\ vc_trace.parsed[k].chunk_id = vc_citations[k].chunk_id
                    /\ vc_trace.parsed[k].line_start = vc_citations[k].line_start.v
                    /\ vc_trace.parsed[k].line_end = vc_citations[k].line_end.v
        /\ ~vc_trace.ok => vc_trace.parsed = <<>>

\* validate_citations returned for a list that names {c0001, 10, 12} twice,
\* which validate_citations_list rejected
C28_Witness ==
    /\ vc_trace.called
    /\ vc_pc = "returned"
    /\ ~vc_trace.ok
    /\ Len(vc_citations) >= 2
    /\ RepeatsKey(vc_citations)

====
